---- MODULE Spec2Model ----
(***************************************************************************)
(* Task-management backend: the task use cases (CreateTask, UpdateTask,    *)
(* UpdateTaskStatus, AssignTask, DeleteTask), the status transition table, *)
(* the permission checks and the Mongo task repository they write through. *)
(*                                                                         *)
(* Strings are modelled by what the code reads of them: an identifier is a *)
(* string ("" is the empty string, Undef an omitted argument, Null a JSON  *)
(* null); a title or description is its length; a tag list is the sequence *)
(* of its tags' lengths; a Date is a number of clock ticks.                *)
(***************************************************************************)
EXTENDS Integers, Sequences, FiniteSets, TLC

\* ------------------------------------------------------------------ bounds
\* Latest clock reading of the model.
MaxClock == 2

\* Largest EMAIL_RETRY_ATTEMPTS the service is constructed with.
MaxRetryAttempts == 3

\* ------------------------------------------------------- values and enums
Undef == "undefined"
Null == "null"
NoDate == 0 - 1

\* The length of a text that is undefined.
NoText == 0 - 1

\* A number of hours that is undefined.
NoHours == 0 - 1

\* `!x` on a string-valued argument
Falsy(x) == x \in {"", Undef, Null}

TaskStatus == {"todo", "in_progress", "review", "done"}

TaskPriority == {"low", "medium", "high", "urgent"}

UserRole == {"admin", "manager", "developer", "viewer"}

\* The users held by the user repository, with the role each one has.
RoleOf == [u \in {"u1", "u2", "u3", "u4"} |->
             CASE u = "u1" -> "developer"
               [] u = "u2" -> "developer"
               [] u = "u3" -> "admin"
               [] u = "u4" -> "manager"]

StoredUsers == DOMAIN RoleOf

\* The ids uuidv4() hands out, in the order it hands them out.
IdPool == <<"t1", "t2">>

TaskIds == {IdPool[i] : i \in 1..Len(IdPool)}

VARIABLES
    tasks,     \* the "tasks" collection: stored id -> document
    issued,    \* how many ids uuidv4() has handed out
    now,       \* the clock read by `new Date()`
    userRepo,  \* whether the use cases were constructed with a user repository
    last,      \* the call that has just ended: arguments and outcome
    prev,      \* the call that ended before it
    calls,     \* the calls in flight, each suspended at one of its awaits
    users,     \* the "users" collection written by the user use cases
    mail,      \* the EmailService singleton and the sendEmail call in flight
    delivery   \* the RabbitMQ channel and the messages handed to the consumer

vars == <<tasks, issued, now, userRepo, last, prev, calls, users, mail, delivery>>

\* ------------------------------------------------------------- the entity
Get(f, k, d) == IF k \in DOMAIN f THEN f[k] ELSE d

\* new Task(props); the class has no field for estimatedHours or actualHours
Task(props, uuid, date) ==
    [id          |-> IF Falsy(Get(props, "id", Undef)) THEN uuid ELSE props.id,
     title       |-> props.title,
     description |-> Get(props, "description", NoText),
     status      |-> Get(props, "status", Undef),
     priority    |-> Get(props, "priority", Undef),
     dueDate     |-> Get(props, "dueDate", NoDate),
     assigneeId  |-> Get(props, "assigneeId", Undef),
     projectId   |-> props.projectId,
     createdBy   |-> props.createdBy,
     tags        |-> Get(props, "tags", << >>),
     createdAt   |-> IF Get(props, "createdAt", NoDate) = NoDate
                     THEN date ELSE props.createdAt,
     updatedAt   |-> IF Get(props, "updatedAt", NoDate) = NoDate
                     THEN date ELSE props.updatedAt]

\* ---------------------------------------------------------- the repository
\* mapToEntity that loses the due date
mapToEntity_noDueDate(doc) ==
    Task([id          |-> doc.id,
          title       |-> doc.title,
          description |-> IF doc.description <= 0 THEN 0 ELSE doc.description,
          status      |-> doc.status,
          priority    |-> doc.priority,
          dueDate     |-> NoDate,
          assigneeId  |-> IF Falsy(doc.assigneeId) THEN Undef ELSE doc.assigneeId,
          projectId   |-> doc.projectId,
          createdBy   |-> doc.createdBy,
          tags        |-> doc.tags,
          createdAt   |-> doc.createdAt,
          updatedAt   |-> doc.updatedAt], doc.id, NoDate)

mapToEntity(doc) ==
    Task([id          |-> doc.id,
          title       |-> doc.title,
          description |-> IF doc.description <= 0 THEN 0 ELSE doc.description,
          status      |-> doc.status,
          priority    |-> doc.priority,
          dueDate     |-> doc.dueDate,
          assigneeId  |-> IF Falsy(doc.assigneeId) THEN Undef ELSE doc.assigneeId,
          projectId   |-> doc.projectId,
          createdBy   |-> doc.createdBy,
          tags        |-> doc.tags,
          estimatedHours |-> IF doc.estimatedHours <= 0 THEN 1
                                                        ELSE doc.estimatedHours,
          actualHours |-> IF doc.actualHours <= 0 THEN 0 ELSE doc.actualHours,
          createdAt   |-> doc.createdAt,
          updatedAt   |-> doc.updatedAt], doc.id, NoDate)

mapToDocument(task) ==
    [id          |-> task.id,
     title       |-> task.title,
     description |-> task.description,
     status      |-> task.status,
     priority    |-> task.priority,
     dueDate     |-> task.dueDate,
     assigneeId  |-> IF Falsy(task.assigneeId) THEN Null ELSE task.assigneeId,
     projectId   |-> task.projectId,
     createdBy   |-> task.createdBy,
     tags        |-> task.tags,
     estimatedHours |-> Get(task, "estimatedHours", NoHours),
     actualHours |-> Get(task, "actualHours", NoHours),
     createdAt   |-> task.createdAt,
     updatedAt   |-> task.updatedAt]

\* findById: the task as a sequence of length one, << >> for null
findById(store, id) ==
    IF id \in DOMAIN store THEN <<mapToEntity(store[id])>> ELSE << >>

\* create: [store, ret]
create(store, taskProps, uuid, date) ==
    LET task == Task(taskProps, uuid, date)
    IN  [store |-> (task.id :> mapToDocument(task)) @@ store,
         ret   |-> <<task>>]

\* update: [err, store, ret]; the keys id and createdAt are dropped from $set
update(store, id, taskProps, date) ==
    IF findById(store, id) = << >>
    THEN [err |-> "NotFoundError", store |-> store, ret |-> << >>]
    ELSE LET updateData == [k \in (DOMAIN taskProps \cup {"updatedAt"})
                                    \ {"id", "createdAt"} |->
                               IF k = "updatedAt" THEN date ELSE taskProps[k]]
             doc   == store[id]
             after == [k \in DOMAIN doc \cup DOMAIN updateData |->
                          IF k \in DOMAIN updateData THEN updateData[k] ELSE doc[k]]
         IN  [err   |-> "ok",
              store |-> [store EXCEPT ![id] = after],
              ret   |-> <<mapToEntity(after)>>]

\* delete that reports a deletion whether or not a document had the id
delete_alwaysTrue(store, id) ==
    [store |-> [k \in DOMAIN store \ {id} |-> store[k]],
     ret   |-> TRUE]

\* delete: [store, ret]
delete(store, id) ==
    [store |-> [k \in DOMAIN store \ {id} |-> store[k]],
     ret   |-> id \in DOMAIN store]

\* userRepository.findById(id) finds a user
userFindById(id) == id \in StoredUsers

\* The outcome of a use case: what it throws or "ok", the collection it
\* leaves, the repository writes and notifications it issued, what it returns.
Result(outcome, store, writes, notified, ret) ==
    [outcome |-> outcome, store |-> store, writes |-> writes,
     notified |-> notified, ret |-> ret]

Thrown(kind, store) == Result(kind, store, 0, 0, << >>)

\* ------------------------------------------------ UpdateTaskStatusUseCase
\* "ok" or the error validateInput throws
UpdateTaskStatusUseCase_validateInput(taskId, status, requesterId) ==
    IF Falsy(taskId) THEN "ValidationError"
    ELSE IF Falsy(status) THEN "ValidationError"
    ELSE IF Falsy(requesterId) THEN "ValidationError"
    ELSE IF status \notin TaskStatus THEN "ValidationError"
    ELSE "ok"

\* validatePermissions that forgets the assignee
UpdateTaskStatusUseCase_validatePermissions_noAssignee(task, requesterId) ==
    task.createdBy = requesterId

\* TRUE when validatePermissions returns without throwing
UpdateTaskStatusUseCase_validatePermissions(task, requesterId) ==
    LET isAssignee == task.assigneeId = requesterId
        isCreator  == task.createdBy = requesterId
        isAdmin    == FALSE
    IN  ~(~isAssignee /\ ~isCreator /\ ~isAdmin)

\* the table with the edge review -> todo added
UpdateTaskStatusUseCase_validTransitions_extraEdge ==
    [s \in TaskStatus |->
        CASE s = "todo"        -> {"in_progress", "review"}
          [] s = "in_progress" -> {"review", "todo"}
          [] s = "review"      -> {"done", "in_progress", "todo"}
          [] s = "done"        -> {"todo", "in_progress"}]

UpdateTaskStatusUseCase_validTransitions ==
    [s \in TaskStatus |->
        CASE s = "todo"        -> {"in_progress", "review"}
          [] s = "in_progress" -> {"review", "todo"}
          [] s = "review"      -> {"done", "in_progress"}
          [] s = "done"        -> {"todo", "in_progress"}]

\* TRUE when validateStatusTransition returns without throwing
UpdateTaskStatusUseCase_validateStatusTransition(currentStatus, newStatus) ==
    newStatus \in UpdateTaskStatusUseCase_validTransitions[currentStatus]

\* execute that stores the comment with the status
UpdateTaskStatusUseCase_execute_storesComment(store, date, taskId, newStatus, requesterId, comment) ==
    LET task == findById(store, taskId)
        u    == update(store, taskId, [status |-> newStatus, comment |-> comment], date)
    IN  IF UpdateTaskStatusUseCase_validateInput(taskId, newStatus, requesterId) # "ok"
        THEN Thrown("ValidationError", store)
        ELSE IF task = << >>
        THEN Thrown("NotFoundError", store)
        ELSE IF ~UpdateTaskStatusUseCase_validatePermissions(task[1], requesterId)
        THEN Thrown("ForbiddenError", store)
        ELSE IF ~UpdateTaskStatusUseCase_validateStatusTransition(task[1].status, newStatus)
        THEN Thrown("ValidationError", store)
        ELSE Result("ok", u.store, 1, 0, u.ret)

\* execute that writes the status before it validates the transition
UpdateTaskStatusUseCase_execute_writeFirst(store, date, taskId, newStatus, requesterId, comment) ==
    LET task == findById(store, taskId)
        u    == update(store, taskId, [status |-> newStatus], date)
    IN  IF UpdateTaskStatusUseCase_validateInput(taskId, newStatus, requesterId) # "ok"
        THEN Thrown("ValidationError", store)
        ELSE IF task = << >>
        THEN Thrown("NotFoundError", store)
        ELSE IF ~UpdateTaskStatusUseCase_validatePermissions(task[1], requesterId)
        THEN Thrown("ForbiddenError", store)
        ELSE IF ~UpdateTaskStatusUseCase_validateStatusTransition(task[1].status, newStatus)
        THEN Result("ValidationError", u.store, 1, 0, << >>)
        ELSE Result("ok", u.store, 1, 0, u.ret)

\* the comment goes to the log only
UpdateTaskStatusUseCase_execute(store, date, taskId, newStatus, requesterId, comment) ==
    LET task == findById(store, taskId)
        u    == update(store, taskId, [status |-> newStatus], date)
    IN  IF UpdateTaskStatusUseCase_validateInput(taskId, newStatus, requesterId) # "ok"
        THEN Thrown("ValidationError", store)
        ELSE IF task = << >>
        THEN Thrown("NotFoundError", store)
        ELSE IF ~UpdateTaskStatusUseCase_validatePermissions(task[1], requesterId)
        THEN Thrown("ForbiddenError", store)
        ELSE IF ~UpdateTaskStatusUseCase_validateStatusTransition(task[1].status, newStatus)
        THEN Thrown("ValidationError", store)
        ELSE IF u.err # "ok"
        THEN Thrown(u.err, store)
        ELSE IF u.ret = << >>
        THEN Thrown("Error", store)
        ELSE Result("ok", u.store, 1, 0, u.ret)

\* ------------------------------------------------------ UpdateTaskUseCase
TitleMin == 3
TitleMax == 200
DescriptionMax == 5000
TagsMax == 10
TagMax == 50

\* validatePermissions that lets the assignee change other fields with status
UpdateTaskUseCase_validatePermissions_anyWithStatus(task, requesterId, updateData) ==
    \/ task.createdBy = requesterId
    \/ (task.assigneeId = requesterId /\ "status" \in DOMAIN updateData
                                      /\ "assigneeId" \notin DOMAIN updateData)

\* TRUE when validatePermissions returns without throwing
UpdateTaskUseCase_validatePermissions(task, requesterId, updateData) ==
    LET isAdmin    == FALSE
        isCreator  == task.createdBy = requesterId
        isAssignee == task.assigneeId = requesterId
        isUpdatingStatus      == "status" \in DOMAIN updateData
        isUpdatingAssignee    == "assigneeId" \in DOMAIN updateData
        isUpdatingOtherFields ==
            \E key \in DOMAIN updateData : key \notin {"status", "assigneeId"}
    IN  \/ isAdmin
        \/ isCreator
        \/ (isAssignee /\ isUpdatingStatus /\ ~isUpdatingOtherFields
                       /\ ~isUpdatingAssignee)

\* "ok" or the error validateUpdateData throws
UpdateTaskUseCase_validateUpdateData(taskData, date) ==
    LET title       == Get(taskData, "title", 0)
        description == Get(taskData, "description", 0)
        dueDate     == Get(taskData, "dueDate", NoDate)
        tags        == Get(taskData, "tags", << >>)
    IN  IF title > 0 /\ (title < TitleMin \/ title > TitleMax)
        THEN "ValidationError"
        ELSE IF description > 0 /\ description > DescriptionMax
        THEN "ValidationError"
        ELSE IF dueDate # NoDate /\ dueDate < date
        THEN "ValidationError"
        ELSE IF "tags" \in DOMAIN taskData /\ Len(tags) > TagsMax
        THEN "ValidationError"
        ELSE IF "tags" \in DOMAIN taskData /\ \E i \in 1..Len(tags) : tags[i] > TagMax
        THEN "ValidationError"
        ELSE "ok"

\* the table with the edge in_progress -> done added
UpdateTaskUseCase_validTransitions_shortcut ==
    [s \in TaskStatus |->
        CASE s = "todo"        -> {"in_progress", "review"}
          [] s = "in_progress" -> {"review", "todo", "done"}
          [] s = "review"      -> {"done", "in_progress"}
          [] s = "done"        -> {"todo", "in_progress"}]

UpdateTaskUseCase_validTransitions ==
    [s \in TaskStatus |->
        CASE s = "todo"        -> {"in_progress", "review"}
          [] s = "in_progress" -> {"review", "todo"}
          [] s = "review"      -> {"done", "in_progress"}
          [] s = "done"        -> {"todo", "in_progress"}]

\* validateStatusTransition that accepts setting the status it already has
UpdateTaskUseCase_validateStatusTransition_selfLoop(currentStatus, newStatus) ==
    \/ newStatus = currentStatus
    \/ newStatus \in UpdateTaskUseCase_validTransitions[currentStatus]

\* TRUE when validateStatusTransition returns without throwing
UpdateTaskUseCase_validateStatusTransition(currentStatus, newStatus) ==
    newStatus \in UpdateTaskUseCase_validTransitions[currentStatus]

\* execute that validates the data before the permissions
UpdateTaskUseCase_execute_validateFirst(store, hasUserRepository, date, id, taskData, requesterId) ==
    LET existingTask == findById(store, id)
        assigneeId   == Get(taskData, "assigneeId", Undef)
        status       == Get(taskData, "status", Undef)
        u            == update(store, id, taskData, date)
    IN  IF existingTask = << >>
        THEN Thrown("NotFoundError", store)
        ELSE IF UpdateTaskUseCase_validateUpdateData(taskData, date) # "ok"
        THEN Thrown("ValidationError", store)
        ELSE IF ~Falsy(requesterId)
                /\ ~UpdateTaskUseCase_validatePermissions(existingTask[1], requesterId, taskData)
        THEN Thrown("ForbiddenError", store)
        ELSE IF ~Falsy(assigneeId) /\ hasUserRepository /\ ~userFindById(assigneeId)
        THEN Thrown("NotFoundError", store)
        ELSE IF ~Falsy(status)
                /\ ~UpdateTaskUseCase_validateStatusTransition(existingTask[1].status, status)
        THEN Thrown("ValidationError", store)
        ELSE Result("ok", u.store, 1, 0, u.ret)

UpdateTaskUseCase_execute(store, hasUserRepository, date, id, taskData, requesterId) ==
    LET existingTask == findById(store, id)
        assigneeId   == Get(taskData, "assigneeId", Undef)
        status       == Get(taskData, "status", Undef)
        u            == update(store, id, taskData, date)
    IN  IF existingTask = << >>
        THEN Thrown("NotFoundError", store)
        ELSE IF ~Falsy(requesterId)
                /\ ~UpdateTaskUseCase_validatePermissions(existingTask[1], requesterId, taskData)
        THEN Thrown("ForbiddenError", store)
        ELSE IF UpdateTaskUseCase_validateUpdateData(taskData, date) # "ok"
        THEN Thrown("ValidationError", store)
        ELSE IF ~Falsy(assigneeId) /\ hasUserRepository /\ ~userFindById(assigneeId)
        THEN Thrown("NotFoundError", store)
        ELSE IF ~Falsy(status)
                /\ ~UpdateTaskUseCase_validateStatusTransition(existingTask[1].status, status)
        THEN Thrown("ValidationError", store)
        ELSE IF u.err # "ok"
        THEN Thrown(u.err, store)
        ELSE IF u.ret = << >>
        THEN Thrown("Error", store)
        ELSE Result("ok", u.store, 1, 0, u.ret)

\* ------------------------------------------------------ AssignTaskUseCase
\* validateInput that checks nothing
AssignTaskUseCase_validateInput_none(taskId, assigneeId) == "ok"

\* "ok" or the error validateInput throws
AssignTaskUseCase_validateInput(taskId, assigneeId) ==
    IF Falsy(taskId) THEN "ValidationError"
    ELSE IF Falsy(assigneeId) THEN "ValidationError"
    ELSE "ok"

\* execute without the already-assigned short circuit
AssignTaskUseCase_execute_alwaysWrite(store, hasUserRepository, date, taskId, assigneeId, notify) ==
    LET task == findById(store, taskId)
        u    == update(store, taskId, [assigneeId |-> assigneeId], date)
    IN  IF AssignTaskUseCase_validateInput(taskId, assigneeId) # "ok"
        THEN Thrown("ValidationError", store)
        ELSE IF task = << >>
        THEN Thrown("NotFoundError", store)
        ELSE IF hasUserRepository /\ ~userFindById(assigneeId)
        THEN Thrown("NotFoundError", store)
        ELSE Result("ok", u.store, 1,
                    IF notify /\ hasUserRepository THEN 1 ELSE 0, u.ret)

AssignTaskUseCase_execute(store, hasUserRepository, date, taskId, assigneeId, notify) ==
    LET task == findById(store, taskId)
        u    == update(store, taskId, [assigneeId |-> assigneeId], date)
    IN  IF AssignTaskUseCase_validateInput(taskId, assigneeId) # "ok"
        THEN Thrown("ValidationError", store)
        ELSE IF task = << >>
        THEN Thrown("NotFoundError", store)
        ELSE IF hasUserRepository /\ ~userFindById(assigneeId)
        THEN Thrown("NotFoundError", store)
        ELSE IF task[1].assigneeId = assigneeId
        THEN Result("ok", store, 0, 0, task)
        ELSE IF u.err # "ok"
        THEN Thrown(u.err, store)
        ELSE IF u.ret = << >>
        THEN Thrown("Error", store)
        ELSE Result("ok", u.store, 1,
                    IF notify /\ hasUserRepository THEN 1 ELSE 0, u.ret)

\* ------------------------------------------------------ DeleteTaskUseCase
\* TRUE when validatePermissions returns without throwing
DeleteTaskUseCase_validatePermissions(task, requesterId, requesterRole) ==
    LET isAdmin   == requesterRole = "admin"
        isCreator == task.createdBy = requesterId
    IN  ~(~isAdmin /\ ~isCreator)

\* ret is << >> here; the boolean the call returns is the field deleted
DeleteTaskUseCase_execute(store, id, requesterId, requesterRole) ==
    LET task == findById(store, id)
        d    == delete(store, id)
    IN  IF task = << >>
        THEN Thrown("NotFoundError", store)
        ELSE IF ~Falsy(requesterId)
                /\ ~DeleteTaskUseCase_validatePermissions(task[1], requesterId, requesterRole)
        THEN Thrown("ForbiddenError", store)
        ELSE Result("ok", d.store, 1, 0, << >>)

\* ------------------------------------------------------ CreateTaskUseCase
\* "ok" or the error validateTaskData throws
CreateTaskUseCase_validateTaskData(taskData) ==
    LET description == Get(taskData, "description", NoText)
        tags        == Get(taskData, "tags", << >>)
    IN  IF taskData.title = 0 \/ Falsy(taskData.projectId) \/ Falsy(taskData.createdBy)
        THEN "ValidationError"
        ELSE IF taskData.title < TitleMin \/ taskData.title > TitleMax
        THEN "ValidationError"
        ELSE IF description > 0 /\ description > DescriptionMax
        THEN "ValidationError"
        ELSE IF Len(tags) > TagsMax
        THEN "ValidationError"
        ELSE IF \E i \in 1..Len(tags) : tags[i] > TagMax
        THEN "ValidationError"
        ELSE "ok"

CreateTaskUseCase_execute(store, hasUserRepository, date, uuid, taskData) ==
    LET c          == create(store, taskData, uuid, date)
        assigneeId == Get(taskData, "assigneeId", Undef)
        dueDate    == Get(taskData, "dueDate", NoDate)
    IN  IF CreateTaskUseCase_validateTaskData(taskData) # "ok"
        THEN Thrown("ValidationError", store)
        ELSE IF hasUserRepository /\ ~userFindById(taskData.createdBy)
        THEN Thrown("NotFoundError", store)
        ELSE IF ~Falsy(assigneeId) /\ hasUserRepository
                /\ ~userFindById(assigneeId)
        THEN Thrown("NotFoundError", store)
        ELSE IF dueDate # NoDate /\ dueDate < date
        THEN Thrown("ValidationError", store)
        ELSE Result("ok", c.store, 1, 0, c.ret)

\* --------------------------------------------- DELETE /api/tasks/:id route
\* authorize([ADMIN, MANAGER]) answers 403 itself; the controller then calls
\* deleteTaskUseCase.execute(id) with no requester.
TaskController_deleteTask(store, id, user) ==
    IF RoleOf[user] \notin {"admin", "manager"}
    THEN Thrown("403", store)
    ELSE DeleteTaskUseCase_execute(store, id, Undef, Undef)

\* ------------------------------------- PATCH /api/tasks/:id/status route
\* The route authenticates and validates the id and the status; there is no
\* authorize step. The controller passes req.user.id as the requester.
TaskController_updateTaskStatus(store, date, id, status, user) ==
    IF Falsy(user)
    THEN Thrown("UnauthorizedError", store)
    ELSE UpdateTaskStatusUseCase_execute(store, date, id, status, user, Undef)

\* ----------------------------------------------------------------- inputs
\* A date before the time of the call.
PastDate == now - 1

ManyTags == [i \in 1..(TagsMax + 1) |-> 1]

CallIds == TaskIds \cup {""}

StatusArgs == TaskStatus \cup {"", "bogus"}

AssigneeArgs == {"u2", "u9", ""}

ValidCreate ==
    [title |-> 3, description |-> 0, status |-> "todo", priority |-> "medium",
     dueDate |-> NoDate, assigneeId |-> Undef, projectId |-> "p1",
     createdBy |-> "u1", tags |-> << >>]

ValidCreates ==
    {ValidCreate} \cup {[ValidCreate EXCEPT !.assigneeId = "u2"]}

CreateInputs ==
    ValidCreates
    \cup {[ValidCreate EXCEPT !.title = n] : n \in {0, 2, TitleMax + 1}}
    \cup {[ValidCreate EXCEPT !.projectId = ""]}
    \cup {[ValidCreate EXCEPT !.createdBy = u] : u \in {"", "u9"}}
    \cup {[ValidCreate EXCEPT !.assigneeId = "u9"]}
    \cup {[ValidCreate EXCEPT !.dueDate = PastDate]}
    \cup {[ValidCreate EXCEPT !.description = DescriptionMax + 1]}
    \cup {[ValidCreate EXCEPT !.tags = t] : t \in {ManyTags, <<TagMax + 1>>}}
    \cup {[ValidCreate EXCEPT !.status = st] : st \in TaskStatus}

Patches ==
    {<< >>}
    \cup {[status |-> st] : st \in TaskStatus}
    \cup {[assigneeId |-> a] : a \in {Null, "u2", "u9"}}
    \cup {[title |-> n] : n \in {2, TitleMax}}
    \cup {[description |-> DescriptionMax + 1]}
    \cup {[tags |-> t] : t \in {ManyTags, <<TagMax + 1>>}}
    \cup {[dueDate |-> PastDate]}
    \cup {[status |-> st, title |-> TitleMax] : st \in TaskStatus}
    \cup {[status |-> st, assigneeId |-> "u2"] : st \in TaskStatus}

\* ---------------------------------------------------------------- actions
NoCall ==
    [op |-> "none", via |-> "usecase", id |-> "", requesterId |-> Undef,
     requesterRole |-> Undef, newStatus |-> Undef, assigneeId |-> Undef,
     notify |-> FALSE, comment |-> Undef, taskData |-> << >>, loaded |-> << >>, outcome |-> "",
     writes |-> 0, notified |-> 0, ret |-> << >>, deleted |-> FALSE,
     before |-> << >>, httpStatus |-> 0, success |-> FALSE]

\* The record of a call that ended with result r on the collection `store`.
Ended(call, r, store) ==
    [call EXCEPT !.loaded = findById(store, call.id),
                 !.outcome = r.outcome, !.writes = r.writes,
                 !.notified = r.notified, !.ret = r.ret]

\* The callers whose calls may be in flight at the same time.
Procs == {"a", "b"}

\* A caller with no call in flight.
NoFlight ==
    [pc |-> "idle", op |-> "none", id |-> "", newStatus |-> Undef,
     requesterId |-> Undef, assigneeId |-> Undef, notify |-> FALSE,
     loaded |-> << >>, outcome |-> "", ret |-> << >>, notification |-> "none",
     taskData |-> << >>, deleted |-> FALSE]

\* The email service before `new EmailService()` has run
NoMail ==
    [pc |-> "unconstructed", enabled |-> FALSE, transporter |-> FALSE,
     isInitialized |-> FALSE, verified |-> FALSE, retryAttempts |-> 0,
     attempt |-> 0, sent |-> 0, delivered |-> 0, ret |-> FALSE, raised |-> FALSE]

MessageTags == {1, 2}

\* A delivery tag no message has been delivered under
NoMessage ==
    [pc |-> "none", content |-> "", failed |-> FALSE, acks |-> 0, nacks |-> 0,
     requeued |-> FALSE]

\* The RabbitMQ service before connect()
NoDelivery == [channel |-> "none", msgs |-> [tag \in MessageTags |-> NoMessage]]

Init ==
    /\ tasks = << >>
    /\ issued = 0
    /\ now = 1
    /\ userRepo \in BOOLEAN
    /\ last = NoCall
    /\ prev = NoCall
    /\ calls = [p \in Procs |-> NoFlight]
    /\ users = << >>
    /\ mail = NoMail
    /\ delivery = NoDelivery

CreateTask(taskData) ==
    /\ issued < Len(IdPool)
    /\ LET r == CreateTaskUseCase_execute(tasks, userRepo, now, IdPool[issued + 1], taskData)
       IN  /\ tasks' = r.store
           /\ issued' = IF r.outcome = "ok" THEN issued + 1 ELSE issued
           /\ last' = [Ended([NoCall EXCEPT !.op = "CreateTask", !.taskData = taskData,
                                            !.requesterId = taskData.createdBy],
                             r, tasks)
                         EXCEPT !.id = IF r.outcome = "ok" THEN r.ret[1].id ELSE ""]
    /\ prev' = last
    /\ UNCHANGED <<now, userRepo, users, calls, mail, delivery>>

UpdateTask(id, taskData, requesterId) ==
    /\ LET r == UpdateTaskUseCase_execute(tasks, userRepo, now, id, taskData, requesterId)
       IN  /\ tasks' = r.store
           /\ last' = Ended([NoCall EXCEPT !.op = "UpdateTask", !.id = id,
                                           !.taskData = taskData,
                                           !.requesterId = requesterId],
                            r, tasks)
    /\ prev' = last
    /\ UNCHANGED <<issued, now, userRepo, users, calls, mail, delivery>>

UpdateTaskStatus(taskId, newStatus, requesterId, comment) ==
    /\ LET r == UpdateTaskStatusUseCase_execute(tasks, now, taskId, newStatus,
                                                requesterId, comment)
       IN  /\ tasks' = r.store
           /\ last' = Ended([NoCall EXCEPT !.op = "UpdateTaskStatus", !.id = taskId,
                                           !.newStatus = newStatus,
                                           !.requesterId = requesterId,
                                           !.comment = comment],
                            r, tasks)
    /\ prev' = last
    /\ UNCHANGED <<issued, now, userRepo, users, calls, mail, delivery>>

AssignTask(taskId, assigneeId, notify) ==
    /\ LET r == AssignTaskUseCase_execute(tasks, userRepo, now, taskId, assigneeId, notify)
       IN  /\ tasks' = r.store
           /\ last' = Ended([NoCall EXCEPT !.op = "AssignTask", !.id = taskId,
                                           !.assigneeId = assigneeId,
                                           !.notify = notify],
                            r, tasks)
    /\ prev' = last
    /\ UNCHANGED <<issued, now, userRepo, users, calls, mail, delivery>>

DeleteTask(id, requesterId, requesterRole) ==
    /\ LET r == DeleteTaskUseCase_execute(tasks, id, requesterId, requesterRole)
       IN  /\ tasks' = r.store
           /\ last' = [Ended([NoCall EXCEPT !.op = "DeleteTask", !.id = id,
                                            !.requesterId = requesterId,
                                            !.requesterRole = requesterRole],
                             r, tasks)
                         EXCEPT !.deleted = r.outcome = "ok" /\ delete(tasks, id).ret]
    /\ prev' = last
    /\ UNCHANGED <<issued, now, userRepo, users, calls, mail, delivery>>

\* DELETE /api/tasks/:id sent by the authenticated user `user`
DeleteTaskRoute(id, user) ==
    /\ LET r == TaskController_deleteTask(tasks, id, user)
       IN  /\ tasks' = r.store
           /\ last' = [Ended([NoCall EXCEPT !.op = "DeleteTask", !.via = "route",
                                            !.id = id, !.requesterId = user,
                                            !.requesterRole = RoleOf[user]],
                             r, tasks)
                         EXCEPT !.deleted = r.outcome = "ok" /\ delete(tasks, id).ret]
    /\ prev' = last
    /\ UNCHANGED <<issued, now, userRepo, users, calls, mail, delivery>>

\* PATCH /api/tasks/:id/status sent by the authenticated user `user`
UpdateTaskStatusRoute(id, status, user) ==
    /\ LET r == TaskController_updateTaskStatus(tasks, now, id, status, user)
       IN  /\ tasks' = r.store
           /\ last' = Ended([NoCall EXCEPT !.op = "UpdateTaskStatus", !.via = "route",
                                           !.id = id, !.newStatus = status,
                                           !.requesterId = user],
                            r, tasks)
    /\ prev' = last
    /\ UNCHANGED <<issued, now, userRepo, users, calls, mail, delivery>>

\* The caller has received the outcome of the call.
Return ==
    /\ last.op # "none"
    /\ last' = NoCall
    /\ prev' = NoCall
    /\ UNCHANGED <<tasks, issued, now, userRepo, users, calls, mail, delivery>>

\* Time passes.
Tick ==
    /\ now < MaxClock
    /\ now' = now + 1
    /\ UNCHANGED <<tasks, issued, userRepo, users, last, prev, calls, mail, delivery>>

\* Without a user repository the use case is the one the controller builds,
\* and the controller sets createdBy to the authenticated user.
CreateTaskCall ==
    \E taskData \in CreateInputs :
        /\ userRepo \/ taskData.createdBy \in StoredUsers \cup {""}
        /\ CreateTask(taskData)

UpdateTaskCall ==
    \E id \in CallIds, taskData \in Patches, requesterId \in StoredUsers \cup {Undef} :
        UpdateTask(id, taskData, requesterId)

UpdateTaskStatusCall ==
    \E id \in CallIds, newStatus \in StatusArgs, requesterId \in StoredUsers \cup {""} :
        UpdateTaskStatus(id, newStatus, requesterId, Undef)

AssignTaskCall ==
    \E id \in CallIds, assigneeId \in AssigneeArgs, notify \in BOOLEAN :
        AssignTask(id, assigneeId, notify)

DeleteTaskCall ==
    \E id \in CallIds, requesterId \in StoredUsers \cup {Undef}, hasRole \in BOOLEAN :
        DeleteTask(id, requesterId,
                   IF hasRole /\ requesterId \in StoredUsers
                   THEN RoleOf[requesterId] ELSE Undef)

DeleteTaskRouteCall ==
    \E id \in TaskIds, user \in StoredUsers : DeleteTaskRoute(id, user)

\* Calls run one after another; each starts after the previous one returned.
Idle == last.op = "none"

SeqCreateTask == Idle /\ CreateTaskCall

SeqUpdateTask == Idle /\ UpdateTaskCall

SeqUpdateTaskStatus == Idle /\ UpdateTaskStatusCall

SeqAssignTask == Idle /\ AssignTaskCall

SeqDeleteTask == Idle /\ DeleteTaskCall

SeqDeleteTaskRoute == Idle /\ DeleteTaskRouteCall

Next ==
    \/ SeqCreateTask
    \/ SeqUpdateTask
    \/ SeqUpdateTaskStatus
    \/ SeqAssignTask
    \/ SeqDeleteTask
    \/ SeqDeleteTaskRoute
    \/ Return

Spec == Init /\ [][Next]_vars

\* Calls of CreateTask and AssignTask with time passing between them; no
\* Return, so that two calls in a row are both on record (prev, last).
CreateValidTaskCall == \E taskData \in ValidCreates : CreateTask(taskData)

NextAssign ==
    \/ CreateValidTaskCall
    \/ AssignTaskCall
    \/ Tick

SpecAssign == Init /\ [][NextAssign]_vars

\* ------------------------------------------- calls suspended at an await
\* execute runs up to an await, is suspended, and is resumed when the awaited
\* repository call has completed; other calls run in between.

\* The call of caller p has ended: what it threw or returned.
Settled(flight, outcome, ret) ==
    [flight EXCEPT !.pc = "returned", !.outcome = outcome, !.ret = ret]

\* UpdateTaskStatusUseCase.execute up to `await findById`
StartUpdateTaskStatus(p, taskId, newStatus, requesterId) ==
    /\ calls[p].pc = "idle"
    /\ LET flight == [NoFlight EXCEPT !.op = "UpdateTaskStatus", !.id = taskId,
                                      !.newStatus = newStatus,
                                      !.requesterId = requesterId]
       IN  calls' = [calls EXCEPT ![p] =
              IF UpdateTaskStatusUseCase_validateInput(taskId, newStatus, requesterId) # "ok"
              THEN Settled(flight, "ValidationError", << >>)
              ELSE [flight EXCEPT !.pc = "loaded", !.loaded = findById(tasks, taskId)]]
    /\ UNCHANGED <<tasks, issued, now, userRepo, users, last, prev, mail, delivery>>

\* UpdateTaskStatusUseCase.execute from the loaded task to the return
ResumeUpdateTaskStatus(p) ==
    /\ calls[p].pc = "loaded"
    /\ calls[p].op = "UpdateTaskStatus"
    /\ LET c == calls[p]
           u == update(tasks, c.id, [status |-> c.newStatus], now)
           refused ==
               IF c.loaded = << >> THEN "NotFoundError"
               ELSE IF ~UpdateTaskStatusUseCase_validatePermissions(c.loaded[1], c.requesterId)
               THEN "ForbiddenError"
               ELSE IF ~UpdateTaskStatusUseCase_validateStatusTransition(
                           c.loaded[1].status, c.newStatus)
               THEN "ValidationError"
               ELSE IF u.err # "ok" THEN u.err
               ELSE IF u.ret = << >> THEN "Error"
               ELSE "ok"
       IN  /\ tasks' = IF refused = "ok" THEN u.store ELSE tasks
           /\ calls' = [calls EXCEPT ![p] =
                  Settled(c, refused, IF refused = "ok" THEN u.ret ELSE << >>)]
    /\ UNCHANGED <<issued, now, userRepo, users, last, prev, mail, delivery>>

\* AssignTaskUseCase.execute up to `await findById`
StartAssignTask(p, taskId, assigneeId, notify) ==
    /\ calls[p].pc = "idle"
    /\ LET flight == [NoFlight EXCEPT !.op = "AssignTask", !.id = taskId,
                                      !.assigneeId = assigneeId, !.notify = notify]
       IN  calls' = [calls EXCEPT ![p] =
              IF AssignTaskUseCase_validateInput(taskId, assigneeId) # "ok"
              THEN Settled(flight, "ValidationError", << >>)
              ELSE [flight EXCEPT !.pc = "loaded", !.loaded = findById(tasks, taskId)]]
    /\ UNCHANGED <<tasks, issued, now, userRepo, users, last, prev, mail, delivery>>

\* sendAssignmentNotification with the try/catch left out
AssignTaskUseCase_sendAssignmentNotification_uncaught(lookup, dispatch) ==
    IF lookup = "raises" \/ (lookup = "found" /\ dispatch = "raises")
    THEN "Error" ELSE "ok"

\* What sendAssignmentNotification throws ("ok" when it returns), given how
\* the user lookup and the dispatch end: the catch block lets nothing out.
AssignTaskUseCase_sendAssignmentNotification(lookup, dispatch) ==
    LET tried == IF lookup = "raises" \/ (lookup = "found" /\ dispatch = "raises")
                 THEN "Error" ELSE "ok"
    IN  IF tried # "ok" THEN "ok" ELSE "ok"

\* AssignTaskUseCase.execute from the loaded task to the return, or to
\* `await this.sendAssignmentNotification`
ResumeAssignTask(p) ==
    /\ calls[p].pc = "loaded"
    /\ calls[p].op = "AssignTask"
    /\ LET c == calls[p]
           u == update(tasks, c.id, [assigneeId |-> c.assigneeId], now)
           refused ==
               IF c.loaded = << >> THEN "NotFoundError"
               ELSE IF userRepo /\ ~userFindById(c.assigneeId) THEN "NotFoundError"
               ELSE IF c.loaded[1].assigneeId = c.assigneeId THEN "same"
               ELSE IF u.err # "ok" THEN u.err
               ELSE IF u.ret = << >> THEN "Error"
               ELSE "ok"
       IN  /\ tasks' = IF refused = "ok" THEN u.store ELSE tasks
           /\ calls' = [calls EXCEPT ![p] =
                  IF refused = "same" THEN Settled(c, "ok", c.loaded)
                  ELSE IF refused # "ok" THEN Settled(c, refused, << >>)
                  ELSE IF c.notify /\ userRepo
                  THEN [c EXCEPT !.pc = "notifying", !.ret = u.ret,
                                 !.notification = "pending"]
                  ELSE Settled(c, "ok", u.ret)]
    /\ UNCHANGED <<issued, now, userRepo, users, last, prev, mail, delivery>>

\* The notification step has ended, and execute with it.
NotificationEnds(p, lookup, dispatch) ==
    /\ calls[p].pc = "notifying"
    /\ LET c == calls[p]
           thrown == AssignTaskUseCase_sendAssignmentNotification(lookup, dispatch)
           failed == lookup = "raises" \/ (lookup = "found" /\ dispatch = "raises")
       IN  calls' = [calls EXCEPT ![p] =
              [Settled(c, thrown, IF thrown = "ok" THEN c.ret ELSE << >>)
                 EXCEPT !.notification = IF failed THEN "failed"
                                         ELSE IF lookup = "found" THEN "sent"
                                         ELSE "absent"]]
    /\ UNCHANGED <<tasks, issued, now, userRepo, users, last, prev, mail, delivery>>

\* The caller has received the outcome of its call.
Received(p) ==
    /\ calls[p].pc = "returned"
    /\ calls' = [calls EXCEPT ![p] = NoFlight]
    /\ UNCHANGED <<tasks, issued, now, userRepo, users, last, prev, mail, delivery>>

\* One task is created before the calls start.
CreateFirstTask ==
    /\ issued = 0
    /\ \E taskData \in ValidCreates : CreateTask(taskData)

AssignTaskStarts ==
    \E p \in Procs, id \in TaskIds, assigneeId \in AssigneeArgs, notify \in BOOLEAN :
        StartAssignTask(p, id, assigneeId, notify)

AssignTaskResumes == \E p \in Procs : ResumeAssignTask(p)

NotificationStepEnds ==
    \E p \in Procs, lookup \in {"found", "absent", "raises"},
       dispatch \in {"sent", "raises"} :
        NotificationEnds(p, lookup, dispatch)

CallReceived == \E p \in Procs : Received(p)

NextNotify ==
    \/ CreateFirstTask
    \/ AssignTaskStarts
    \/ AssignTaskResumes
    \/ NotificationStepEnds
    \/ CallReceived

SpecNotify == Init /\ [][NextNotify]_vars

\* The use case and the repository take their steps; nothing makes the user
\* lookup or the dispatch of the notification step end.
SpecNotifyLive ==
    /\ Init
    /\ [][NextNotify]_vars
    /\ WF_vars(AssignTaskResumes)
    /\ WF_vars(CallReceived)

UpdateTaskStatusStarts ==
    \E p \in Procs, id \in TaskIds, newStatus \in TaskStatus,
       requesterId \in {"u1", "u2"} :
        StartUpdateTaskStatus(p, id, newStatus, requesterId)

UpdateTaskStatusResumes == \E p \in Procs : ResumeUpdateTaskStatus(p)

NextOverlap ==
    \/ CreateFirstTask
    \/ UpdateTaskStatusStarts
    \/ UpdateTaskStatusResumes
    \/ CallReceived

SpecOverlap == Init /\ [][NextOverlap]_vars

\* AssignTask calls that hand the task to one stored user or another, among
\* the calls of UpdateTaskStatus.
ReassignStarts ==
    \E p \in Procs, assigneeId \in {"u2", "u3"} :
        StartAssignTask(p, IdPool[1], assigneeId, FALSE)

NextReassign ==
    \/ CreateFirstTask
    \/ UpdateTaskStatusStarts
    \/ UpdateTaskStatusResumes
    \/ ReassignStarts
    \/ AssignTaskResumes
    \/ CallReceived

SpecReassign == Init /\ [][NextReassign]_vars

\* ------------------------------------------ deletes among stale writers
\* Here the repository's update is two steps, as in its code: its own
\* findById, then findOneAndUpdate; a delete may run between them.

\* collection.findOneAndUpdate({id}, {$set: updateData}, {returnDocument:
\* "after"}): no document is made when none has the id
findOneAndUpdate(store, id, updateData) ==
    IF id \notin DOMAIN store
    THEN [store |-> store, value |-> << >>]
    ELSE LET doc   == store[id]
             after == [k \in DOMAIN doc \cup DOMAIN updateData |->
                          IF k \in DOMAIN updateData THEN updateData[k] ELSE doc[k]]
         IN  [store |-> [store EXCEPT ![id] = after], value |-> <<after>>]

\* DeleteTaskUseCase.execute up to `await findById`
StartDeleteTask(p, id, requesterId) ==
    /\ calls[p].pc = "idle"
    /\ calls' = [calls EXCEPT ![p] =
          [NoFlight EXCEPT !.op = "DeleteTask", !.id = id,
                           !.requesterId = requesterId, !.pc = "loaded",
                           !.loaded = findById(tasks, id)]]
    /\ UNCHANGED <<tasks, issued, now, userRepo, users, last, prev, mail, delivery>>

\* DeleteTaskUseCase.execute from the loaded task to the return
ResumeDeleteTask(p) ==
    /\ calls[p].pc = "loaded"
    /\ calls[p].op = "DeleteTask"
    /\ LET c == calls[p]
           d == delete(tasks, c.id)
           refused ==
               IF c.loaded = << >> THEN "NotFoundError"
               ELSE IF ~Falsy(c.requesterId)
                       /\ ~DeleteTaskUseCase_validatePermissions(
                               c.loaded[1], c.requesterId, RoleOf[c.requesterId])
               THEN "ForbiddenError"
               ELSE "ok"
       IN  /\ tasks' = IF refused = "ok" THEN d.store ELSE tasks
           /\ calls' = [calls EXCEPT ![p] =
                  [Settled(c, refused, << >>)
                     EXCEPT !.deleted = refused = "ok" /\ d.ret]]
    /\ UNCHANGED <<issued, now, userRepo, users, last, prev, mail, delivery>>

\* UpdateTaskUseCase.execute up to `await findById`
StartUpdateTask(p, id, taskData, requesterId) ==
    /\ calls[p].pc = "idle"
    /\ calls' = [calls EXCEPT ![p] =
          [NoFlight EXCEPT !.op = "UpdateTask", !.id = id, !.taskData = taskData,
                           !.requesterId = requesterId, !.pc = "loaded",
                           !.loaded = findById(tasks, id)]]
    /\ UNCHANGED <<tasks, issued, now, userRepo, users, last, prev, mail, delivery>>

\* What a use case throws between its load and its call of update ("ok" when
\* it calls update, "same" when AssignTask returns the loaded task).
RefusedBeforeUpdate(c) ==
    IF c.loaded = << >> THEN "NotFoundError"
    ELSE IF c.op = "UpdateTaskStatus" THEN
        IF ~UpdateTaskStatusUseCase_validatePermissions(c.loaded[1], c.requesterId)
            THEN "ForbiddenError"
        ELSE IF ~UpdateTaskStatusUseCase_validateStatusTransition(
                    c.loaded[1].status, c.newStatus)
            THEN "ValidationError"
        ELSE "ok"
    ELSE IF c.op = "AssignTask" THEN
        IF userRepo /\ ~userFindById(c.assigneeId) THEN "NotFoundError"
        ELSE IF c.loaded[1].assigneeId = c.assigneeId THEN "same"
        ELSE "ok"
    ELSE
        IF ~Falsy(c.requesterId)
           /\ ~UpdateTaskUseCase_validatePermissions(c.loaded[1], c.requesterId, c.taskData)
            THEN "ForbiddenError"
        ELSE IF UpdateTaskUseCase_validateUpdateData(c.taskData, now) # "ok"
            THEN "ValidationError"
        ELSE IF ~Falsy(Get(c.taskData, "assigneeId", Undef)) /\ userRepo
                /\ ~userFindById(c.taskData.assigneeId)
            THEN "NotFoundError"
        ELSE IF ~Falsy(Get(c.taskData, "status", Undef))
                /\ ~UpdateTaskUseCase_validateStatusTransition(
                        c.loaded[1].status, c.taskData.status)
            THEN "ValidationError"
        ELSE "ok"

\* The taskProps the use case hands to update
PropsToUpdate(c) ==
    IF c.op = "UpdateTaskStatus" THEN [status |-> c.newStatus]
    ELSE IF c.op = "AssignTask" THEN [assigneeId |-> c.assigneeId]
    ELSE c.taskData

\* A writing use case from its loaded task to the findById inside
\* MongoTaskRepository.update
CheckThenUpdate(p) ==
    /\ calls[p].pc = "loaded"
    /\ calls[p].op \in {"UpdateTask", "UpdateTaskStatus", "AssignTask"}
    /\ LET c       == calls[p]
           refused == RefusedBeforeUpdate(c)
       IN  calls' = [calls EXCEPT ![p] =
              IF refused = "same" THEN Settled(c, "ok", c.loaded)
              ELSE IF refused # "ok" THEN Settled(c, refused, << >>)
              ELSE IF findById(tasks, c.id) = << >>
              THEN Settled(c, "NotFoundError", << >>)
              ELSE [c EXCEPT !.pc = "updating"]]
    /\ UNCHANGED <<tasks, issued, now, userRepo, users, last, prev, mail, delivery>>

\* MongoTaskRepository.update from its findOneAndUpdate to the return of the
\* use case: null from update makes the use case throw an Error
RepositoryWrites(p) ==
    /\ calls[p].pc = "updating"
    /\ LET c          == calls[p]
           taskProps  == PropsToUpdate(c)
           updateData == [k \in (DOMAIN taskProps \cup {"updatedAt"})
                                   \ {"id", "createdAt"} |->
                             IF k = "updatedAt" THEN now ELSE taskProps[k]]
           result     == findOneAndUpdate(tasks, c.id, updateData)
       IN  /\ tasks' = result.store
           /\ calls' = [calls EXCEPT ![p] =
                  IF result.value = << >> THEN Settled(c, "Error", << >>)
                  ELSE Settled(c, "ok", <<mapToEntity(result.value[1])>>)]
    /\ UNCHANGED <<issued, now, userRepo, users, last, prev, mail, delivery>>

DeleteTaskStarts ==
    \E p \in Procs, requesterId \in {"u1", "u2"} :
        StartDeleteTask(p, IdPool[1], requesterId)

DeleteTaskResumes == \E p \in Procs : ResumeDeleteTask(p)

WriterStarts ==
    \E p \in Procs :
        \/ \E newStatus \in {"in_progress", "done"} :
               StartUpdateTaskStatus(p, IdPool[1], newStatus, "u1")
        \/ \E assigneeId \in {"u2", "u3"} :
               StartAssignTask(p, IdPool[1], assigneeId, FALSE)
        \/ \E taskData \in {[title |-> 5], [status |-> "in_progress"]} :
               StartUpdateTask(p, IdPool[1], taskData, "u1")

WriterChecks == \E p \in Procs : CheckThenUpdate(p)

WriterWrites == \E p \in Procs : RepositoryWrites(p)

NextDelete ==
    \/ CreateFirstTask
    \/ DeleteTaskStarts
    \/ DeleteTaskResumes
    \/ WriterStarts
    \/ WriterChecks
    \/ WriterWrites
    \/ CallReceived

SpecDelete == Init /\ [][NextDelete]_vars

\* ------------------------------------------------- the fields of a task
\* CreateTask called with the required properties only.
MinimalCreate == [title |-> TitleMin, projectId |-> "p1", createdBy |-> "u1"]

\* Due dates before, at and after the time of the call.
DueDates == {now - 1, now, now + 1}

FieldCreates ==
    CreateInputs \cup {MinimalCreate}
    \cup {[ValidCreate EXCEPT !.dueDate = d] : d \in DueDates}

\* Patches of the fields that have a constraint, and of id and createdBy.
FieldPatches ==
    {[title |-> n] : n \in {0, 1, TitleMin - 1, TitleMin, TitleMax, TitleMax + 1}}
    \cup {[description |-> n] : n \in {0, DescriptionMax, DescriptionMax + 1}}
    \cup {[tags |-> t] : t \in {<< >>, <<TagMax>>, <<TagMax + 1>>, ManyTags}}
    \cup {[id |-> "t9"], [createdBy |-> "u2"], [id |-> "t9", createdBy |-> "u2"]}
    \cup {[dueDate |-> d] : d \in DueDates}

\* One task is created and then patched.
CreateFieldsCall ==
    \E taskData \in FieldCreates :
        /\ issued = 0
        /\ userRepo \/ taskData.createdBy \in StoredUsers \cup {""}
        /\ CreateTask(taskData)

UpdateFieldsCall ==
    \E id \in CallIds, taskData \in FieldPatches, requesterId \in {"u1", "u2", Undef} :
        UpdateTask(id, taskData, requesterId)

SeqCreateFields == Idle /\ CreateFieldsCall

SeqUpdateFields == Idle /\ UpdateFieldsCall

NextFields ==
    \/ SeqCreateFields
    \/ SeqUpdateFields
    \/ Return

SpecFields == Init /\ [][NextFields]_vars

\* ------------------------------------------------------ the task routes
UpdateTaskStatusRouteCall ==
    \E id \in TaskIds, status \in TaskStatus, user \in StoredUsers :
        UpdateTaskStatusRoute(id, status, user)

SeqUpdateTaskStatusRoute == Idle /\ UpdateTaskStatusRouteCall

SeqCreateAssignedTask == Idle /\ CreateValidTaskCall

NextRoute ==
    \/ SeqCreateAssignedTask
    \/ SeqUpdateTaskStatusRoute
    \/ SeqDeleteTaskRoute
    \/ Return

SpecRoute == Init /\ [][NextRoute]_vars

\* ------------------------------------------------ status changes in time
UpdateStatusCommentCall ==
    \E id \in CallIds, newStatus \in TaskStatus, requesterId \in {"u1", "u2", "u3"},
       comment \in {Undef, "note"} :
        UpdateTaskStatus(id, newStatus, requesterId, comment)

SeqCreateValidTask == Idle /\ CreateValidTaskCall

SeqUpdateStatusComment == Idle /\ UpdateStatusCommentCall

IdleTick == Idle /\ Tick

NextStatus ==
    \/ SeqCreateValidTask
    \/ SeqUpdateStatusComment
    \/ IdleTick
    \/ Return

SpecStatus == Init /\ [][NextStatus]_vars

\* ------------------------------------------- the repository called directly
\* Task props as the TaskProps type and the create route admit them.
RepoProps ==
    {[title |-> TitleMin, description |-> 0, status |-> "todo",
      priority |-> "medium", projectId |-> "p1", createdBy |-> "u1"] @@ opt :
        opt \in {<< >>} \cup {[assigneeId |-> a] : a \in {"u2", Null}}
               \cup {[dueDate |-> MaxClock + 1]} \cup {[tags |-> <<TagMax>>]}
               \cup {[assigneeId |-> "u2", dueDate |-> MaxClock + 1,
                      tags |-> << >>]}}

RepoPatches == {[status |-> "done"], [assigneeId |-> "u2"], [title |-> TitleMax]}

RepoCreate(taskProps) ==
    /\ issued < Len(IdPool)
    /\ LET c == create(tasks, taskProps, IdPool[issued + 1], now)
       IN  /\ tasks' = c.store
           /\ last' = [NoCall EXCEPT !.op = "create", !.via = "repository",
                                     !.taskData = taskProps, !.id = c.ret[1].id,
                                     !.outcome = "ok", !.writes = 1, !.ret = c.ret]
    /\ issued' = issued + 1
    /\ prev' = last
    /\ UNCHANGED <<now, userRepo, users, calls, mail, delivery>>

RepoFindById(id) ==
    /\ last' = [NoCall EXCEPT !.op = "findById", !.via = "repository", !.id = id,
                              !.outcome = "ok", !.ret = findById(tasks, id)]
    /\ prev' = last
    /\ UNCHANGED <<tasks, issued, now, userRepo, users, calls, mail, delivery>>

RepoUpdate(id, taskProps) ==
    /\ LET u == update(tasks, id, taskProps, now)
       IN  /\ tasks' = u.store
           /\ last' = [NoCall EXCEPT !.op = "update", !.via = "repository", !.id = id,
                                     !.taskData = taskProps,
                                     !.loaded = findById(tasks, id),
                                     !.outcome = u.err, !.ret = u.ret,
                                     !.writes = IF u.err = "ok" THEN 1 ELSE 0]
    /\ prev' = last
    /\ UNCHANGED <<issued, now, userRepo, users, calls, mail, delivery>>

RepoCreateCall == Idle /\ \E taskProps \in RepoProps : RepoCreate(taskProps)

\* findById is called right after create, or on its own.
RepoFindByIdCall ==
    /\ last.op \in {"none", "create"}
    /\ \E id \in TaskIds : RepoFindById(id)

RepoUpdateCall ==
    Idle /\ \E id \in TaskIds, taskProps \in RepoPatches : RepoUpdate(id, taskProps)

NextRepo ==
    \/ RepoCreateCall
    \/ RepoFindByIdCall
    \/ RepoUpdateCall
    \/ Tick
    \/ Return

SpecRepo == Init /\ [][NextRepo]_vars

\* ------------------------------------------------- errors and status codes
\* What `throw new <kind>(...)` throws: errorHandler exports no ForbiddenError,
\* so that expression raises a TypeError.
ErrorThrown(kind) == IF kind = "ForbiddenError" THEN "TypeError" ELSE kind

\* error.statusCode; 0 for an error that has none
AppError_statusCode(error) ==
    CASE error = "ValidationError"   -> 400
      [] error = "NotFoundError"     -> 400
      [] error = "UnauthorizedError" -> 400
      [] error = "ConflictError"     -> 400
      [] OTHER                       -> 0

\* res.status(error.statusCode || 500) in the controllers' catch blocks
TaskController_status(error) ==
    IF AppError_statusCode(error) = 0 THEN 500 ELSE AppError_statusCode(error)

\* ------------------------------------------------------------- the users
\* An email is modelled by what the code reads of it: its letters, whether
\* some of them are upper case, and whether it is an address (has an "@").
\* A password is its length and whether it matches the schema's pattern
\* (lower case, upper case, digit and special character) `strong'.  A first
\* or last name is its length.  None of the values below holds a character
\* that sanitizeInput strips or escapes, so it leaves them as they are.
UserIdPool == <<"n1", "n2", "n3">>

UserIds == {UserIdPool[i] : i \in 1..Len(UserIdPool)}

Email(name, upper, at) == [name |-> name, upper |-> upper, at |-> at]

\* String.prototype.toLowerCase on an email
toLowerCase(email) == [email EXCEPT !.upper = FALSE]

Password(length, strong) == [length |-> length, strong |-> strong]

\* new User(props)
User(props, uuid, date) ==
    [id        |-> IF Falsy(Get(props, "id", Undef)) THEN uuid ELSE props.id,
     email     |-> Get(props, "email", Undef),
     password  |-> Get(props, "password", Undef),
     firstName |-> Get(props, "firstName", Undef),
     lastName  |-> Get(props, "lastName", Undef),
     role      |-> Get(props, "role", Undef),
     isActive  |-> Get(props, "isActive", TRUE),
     createdAt |-> Get(props, "createdAt", date),
     updatedAt |-> Get(props, "updatedAt", date)]

\* MongoUserRepository.findByEmail: << >> or <<user>>
userFindByEmail(store, email) ==
    IF \E id \in DOMAIN store : store[id].email = email
    THEN <<store[CHOOSE id \in DOMAIN store : store[id].email = email]>>
    ELSE << >>

\* MongoUserRepository.create
userCreate(store, uuid, date, userProps) ==
    LET user == User(userProps, uuid, date)
    IN  [store |-> [id \in DOMAIN store \cup {user.id} |->
                       IF id = user.id THEN user ELSE store[id]],
         ret   |-> <<user>>]

\* MongoUserRepository.update: findOneAndUpdate with
\* $set {...userProps, updateAt: new Date()}, null when no document has the id
userUpdate(store, id, date, userProps) ==
    IF id \notin DOMAIN store
    THEN [store |-> store, ret |-> << >>]
    ELSE LET doc == [k \in DOMAIN store[id] \cup DOMAIN userProps
                              \cup {"updateAt"} |->
                        IF k = "updateAt" THEN date
                        ELSE IF k \in DOMAIN userProps THEN userProps[k]
                        ELSE store[id][k]]
         IN  [store |-> [store EXCEPT ![id] = doc], ret |-> <<doc>>]

\* MongoUserRepository.delete: deletedCount > 0
userDelete(store, id) ==
    [store |-> [i \in DOMAIN store \ {id} |-> store[i]],
     ret   |-> id \in DOMAIN store]

\* schema.parse(req.body) with userCreateSchema: "ZodError", or the parsed
\* data with the email in lower case and isActive defaulted
userCreateSchema(body) ==
    LET ok == /\ {"email", "password", "firstName", "lastName", "role"}
                    \subseteq DOMAIN body
              /\ body.email.at
              /\ body.password.length >= 8
              /\ body.password.length <= 100
              /\ body.password.strong
              /\ body.firstName >= 2 /\ body.firstName <= 50
              /\ body.lastName >= 2 /\ body.lastName <= 50
              /\ body.role \in UserRole
    IN  IF ~ok THEN [err |-> "ZodError", data |-> body]
        ELSE [err  |-> "ok",
              data |-> [k \in DOMAIN body \cup {"isActive"} |->
                           IF k = "email" THEN toLowerCase(body.email)
                           ELSE IF k = "isActive" THEN Get(body, "isActive", TRUE)
                           ELSE body[k]]]

\* CreateUserUseCase.validateUserData: "ok" or the error it throws
CreateUserUseCase_validateUserData(userData) ==
    IF ~({"email", "password", "firstName", "lastName", "role"}
             \subseteq DOMAIN userData)
        THEN "ValidationError"
    ELSE IF userData.password.length = 0 \/ userData.firstName = 0
            \/ userData.lastName = 0 \/ userData.role = ""
        THEN "ValidationError"
    ELSE IF ~userData.email.at THEN "ValidationError"
    ELSE IF userData.password.length < 6 THEN "ValidationError"
    ELSE IF userData.role \notin UserRole THEN "ValidationError"
    ELSE "ok"

\* CreateUserUseCase.execute
CreateUserUseCase_execute(store, uuid, date, userData) ==
    IF CreateUserUseCase_validateUserData(userData) # "ok"
        THEN [outcome |-> "ValidationError", store |-> store, ret |-> << >>]
    ELSE IF userFindByEmail(store, userData.email) # << >>
        THEN [outcome |-> "ConflictError", store |-> store, ret |-> << >>]
    ELSE LET created == userCreate(store, uuid, date, userData)
         IN  [outcome |-> "ok", store |-> created.store, ret |-> created.ret]

\* statusCode of the errors CreateUserUseCase imports from
\* core/errors/AppError
CoreAppError_statusCode(error) ==
    CASE error = "ValidationError" -> 400
      [] error = "ConflictError"   -> 409
      [] OTHER                     -> 0

\* UserController.createUser: the response it sends
UserController_createUser(store, uuid, date, body) ==
    LET r == CreateUserUseCase_execute(store, uuid, date, body)
    IN  IF r.outcome = "ok"
        THEN [outcome |-> "ok", store |-> r.store, ret |-> r.ret,
              httpStatus |-> 201, success |-> TRUE]
        ELSE [outcome |-> r.outcome, store |-> r.store, ret |-> << >>,
              httpStatus |-> IF CoreAppError_statusCode(r.outcome) = 0
                             THEN 500
                             ELSE CoreAppError_statusCode(r.outcome),
              success |-> FALSE]

\* POST /api/users: sanitizeInput, validate(userCreateSchema), createUser;
\* the ValidationError thrown by validate is answered by errorHandler
UserRoutes_post(store, uuid, date, body) ==
    LET parsed == userCreateSchema(body)
    IN  IF parsed.err # "ok"
        THEN [outcome |-> "ValidationError", store |-> store, ret |-> << >>,
              httpStatus |-> AppError_statusCode("ValidationError"),
              success |-> FALSE]
        ELSE UserController_createUser(store, uuid, date, parsed.data)

\* UpdateUserUseCase.validateUserData
UpdateUserUseCase_validateUserData(userData) ==
    IF "email" \in DOMAIN userData /\ ~userData.email.at
        THEN "ValidationError"
    ELSE IF "password" \in DOMAIN userData /\ userData.password.length > 0
            /\ userData.password.length < 6
        THEN "ValidationError"
    ELSE IF "role" \in DOMAIN userData /\ userData.role # ""
            /\ userData.role \notin UserRole
        THEN "ValidationError"
    ELSE "ok"

\* UpdateUserUseCase.execute
UpdateUserUseCase_execute(store, id, date, userData) ==
    IF UpdateUserUseCase_validateUserData(userData) # "ok"
        THEN [outcome |-> "ValidationError", store |-> store, ret |-> << >>]
    ELSE LET updated == userUpdate(store, id, date, userData)
         IN  IF updated.ret = << >>
             THEN [outcome |-> "NotFoundError", store |-> store, ret |-> << >>]
             ELSE [outcome |-> "ok", store |-> updated.store,
                   ret |-> updated.ret]

\* DeleteUserUseCase.execute
DeleteUserUseCase_execute(store, id) == userDelete(store, id)

\* Request bodies: the one of the integration test ('password123', a
\* password with no upper-case letter and no special character), the same
\* with a password the schema accepts, and bodies with one thing wrong.
TestBody ==
    [email     |-> Email("a", FALSE, TRUE),
     password  |-> Password(11, FALSE),
     firstName |-> 4,
     lastName  |-> 3,
     role      |-> "developer"]

StrongBody == [TestBody EXCEPT !.password = Password(11, TRUE)]

Without(body, keys) == [k \in DOMAIN body \ keys |-> body[k]]

UserBodies ==
    {TestBody}
    \cup {[StrongBody EXCEPT !.email = Email(n, u, TRUE)] :
              n \in {"a", "b"}, u \in BOOLEAN}
    \cup {[StrongBody EXCEPT !.email = Email("a", FALSE, FALSE)],
          [StrongBody EXCEPT !.password = Password(5, TRUE)],
          [StrongBody EXCEPT !.role = "guest"],
          Without(StrongBody, {"lastName"}),
          Without(StrongBody, {"role"}),
          Without([StrongBody EXCEPT !.email = Email("a", FALSE, FALSE),
                                     !.password = Password(5, FALSE)],
                  {"lastName", "role"})}

UserPatches ==
    {[email |-> Email(n, FALSE, TRUE)] : n \in {"a", "b"}}
    \cup {[email |-> Email("a", FALSE, FALSE)],
          [role |-> "manager"],
          [password |-> Password(5, TRUE)]}

CreateUser(body) ==
    /\ issued < Len(UserIdPool)
    /\ LET r == UserRoutes_post(users, UserIdPool[issued + 1], now, body)
       IN  /\ users' = r.store
           /\ issued' = IF r.outcome = "ok" THEN issued + 1 ELSE issued
           /\ last' = [NoCall EXCEPT !.op = "CreateUser", !.via = "route",
                                     !.taskData = body, !.before = users,
                                     !.outcome = r.outcome, !.ret = r.ret,
                                     !.httpStatus = r.httpStatus,
                                     !.success = r.success]
    /\ prev' = last
    /\ UNCHANGED <<tasks, now, userRepo, calls, mail, delivery>>

UpdateUser(id, userData) ==
    /\ LET r == UpdateUserUseCase_execute(users, id, now, userData)
       IN  /\ users' = r.store
           /\ last' = [NoCall EXCEPT !.op = "UpdateUser", !.id = id,
                                     !.taskData = userData, !.before = users,
                                     !.outcome = r.outcome, !.ret = r.ret]
    /\ prev' = last
    /\ UNCHANGED <<tasks, issued, now, userRepo, calls, mail, delivery>>

DeleteUser(id) ==
    /\ LET r == DeleteUserUseCase_execute(users, id)
       IN  /\ users' = r.store
           /\ last' = [NoCall EXCEPT !.op = "DeleteUser", !.id = id,
                                     !.before = users, !.outcome = "ok",
                                     !.deleted = r.ret]
    /\ prev' = last
    /\ UNCHANGED <<tasks, issued, now, userRepo, calls, mail, delivery>>

SeqCreateUser == Idle /\ \E body \in UserBodies : CreateUser(body)

SeqUpdateUser ==
    Idle /\ \E id \in UserIds, userData \in UserPatches : UpdateUser(id, userData)

SeqDeleteUser == Idle /\ \E id \in UserIds : DeleteUser(id)

NextUsers ==
    \/ SeqCreateUser
    \/ SeqUpdateUser
    \/ SeqDeleteUser
    \/ Return

SpecUsers == Init /\ [][NextUsers]_vars

\* ---------------------------------------------------------- EmailService
\* `attempt < this.config.retryAttempts` with <= in place of <
EmailService_shouldRetry_orEqual(attempt, retryAttempts) == attempt <= retryAttempts

\* sendWithRetry, after a failed sendMail: another attempt is made
EmailService_shouldRetry(attempt, retryAttempts) == attempt < retryAttempts

\* sendWithRetry's guard: it throws 'Email service is not initialized'
EmailService_notInitialized(service) ==
    ~service.transporter \/ ~service.isInitialized

\* The catch block of sendEmail: whatever was thrown, false is returned
EmailService_sendEmail_catch(service) ==
    [service EXCEPT !.pc = "returned", !.ret = FALSE, !.raised = FALSE]

\* new EmailService(): the configuration is read and initialize() creates
\* the transporter when the service is enabled and has credentials, unless
\* createTransport throws
ConstructEmailService(enabled, credentials, created, retryAttempts) ==
    /\ mail.pc = "unconstructed"
    /\ mail' = [NoMail EXCEPT !.pc = "idle", !.enabled = enabled,
                              !.transporter = enabled /\ credentials /\ created,
                              !.retryAttempts = retryAttempts]
    /\ UNCHANGED <<tasks, issued, now, userRepo, last, prev, calls, users, delivery>>

\* The callback of transporter.verify runs.
VerifyEnds(ok) ==
    /\ mail.pc # "unconstructed"
    /\ mail.transporter
    /\ ~mail.verified
    /\ mail' = [mail EXCEPT !.verified = TRUE, !.isInitialized = ok]
    /\ UNCHANGED <<tasks, issued, now, userRepo, last, prev, calls, users, delivery>>

\* sendEmail up to the first `await this.transporter.sendMail`
StartSendEmail ==
    /\ mail.pc = "idle"
    /\ mail' =
          IF ~mail.enabled
          THEN [mail EXCEPT !.pc = "returned", !.ret = FALSE]
          ELSE IF EmailService_notInitialized(mail)
          THEN EmailService_sendEmail_catch(mail)
          ELSE [mail EXCEPT !.pc = "sending", !.attempt = 1, !.sent = 1]
    /\ UNCHANGED <<tasks, issued, now, userRepo, last, prev, calls, users, delivery>>

\* transporter.sendMail has resolved (ok) or rejected
SendMailEnds(ok) ==
    /\ mail.pc = "sending"
    /\ mail' =
          IF ok
          THEN [mail EXCEPT !.pc = "returned", !.ret = TRUE,
                            !.delivered = mail.delivered + 1]
          ELSE IF EmailService_shouldRetry(mail.attempt, mail.retryAttempts)
          THEN [mail EXCEPT !.pc = "waiting"]
          ELSE EmailService_sendEmail_catch(mail)
    /\ UNCHANGED <<tasks, issued, now, userRepo, last, prev, calls, users, delivery>>

\* The retryDelay timer fires: sendWithRetry(mailOptions, attempt + 1)
RetryDelayEnds ==
    /\ mail.pc = "waiting"
    /\ mail' =
          IF EmailService_notInitialized(mail)
          THEN EmailService_sendEmail_catch(mail)
          ELSE [mail EXCEPT !.pc = "sending", !.attempt = mail.attempt + 1,
                            !.sent = mail.sent + 1]
    /\ UNCHANGED <<tasks, issued, now, userRepo, last, prev, calls, users, delivery>>

\* The caller has the boolean; the next message may be sent.
SendEmailReceived ==
    /\ mail.pc = "returned"
    /\ mail' = [mail EXCEPT !.pc = "idle", !.attempt = 0, !.sent = 0,
                            !.delivered = 0, !.ret = FALSE]
    /\ UNCHANGED <<tasks, issued, now, userRepo, last, prev, calls, users, delivery>>

EmailServiceConstructed ==
    \E enabled \in BOOLEAN, credentials \in BOOLEAN, created \in BOOLEAN,
       retryAttempts \in 0..MaxRetryAttempts :
        ConstructEmailService(enabled, credentials, created, retryAttempts)

VerifyCallback == \E ok \in BOOLEAN : VerifyEnds(ok)

SendMailSettles == \E ok \in BOOLEAN : SendMailEnds(ok)

NextEmail ==
    \/ EmailServiceConstructed
    \/ VerifyCallback
    \/ StartSendEmail
    \/ SendMailSettles
    \/ RetryDelayEnds
    \/ SendEmailReceived

SpecEmail == Init /\ [][NextEmail]_vars

\* Every sendMail settles (the transport times out a dead connection) and
\* every retry timer fires.
SpecEmailLive ==
    /\ Init
    /\ [][NextEmail]_vars
    /\ WF_vars(SendMailSettles)
    /\ WF_vars(RetryDelayEnds)

\* ------------------------------------------- the queue consumer and worker
\* What a message holds: text that is not JSON, the JSON text null, or a
\* QueueMessage of one of the worker's types or of another type.
MessageContents ==
    {"malformed", "null", "welcome_email", "task_assignment", "password_reset",
     "other_type"}

\* JSON.parse(msg.content.toString()) throws
JSON_parseThrows(content) == content = "malformed"

\* The callback of EmailWorker.start can throw: reading message.type of
\* null, or the payload of a welcome_email; the other cases cannot
EmailWorker_callbackOutcomes(content) ==
    CASE content = "null"          -> {"throws"}
      [] content = "welcome_email" -> {"returns", "throws"}
      [] OTHER                     -> {"returns"}

\* channel.ack / channel.nack on a channel that is open; on a closed channel
\* both throw
Channel_settle(message, verb) ==
    IF verb = "ack"
    THEN [message EXCEPT !.pc = "settled", !.acks = message.acks + 1]
    ELSE [message EXCEPT !.pc = "settled", !.nacks = message.nacks + 1]

\* rabbitMQService.connect() and EmailWorker.start()
StartEmailWorker ==
    /\ delivery.channel = "none"
    /\ delivery' = [delivery EXCEPT !.channel = "open"]
    /\ UNCHANGED <<tasks, issued, now, userRepo, last, prev, calls, users, mail>>

\* The consumer function is called with msg: it parses, and nacks at once
\* when parsing throws; otherwise it awaits the callback.
DeliverMessage(tag, content) ==
    /\ delivery.channel = "open"
    /\ delivery.msgs[tag].pc = "none"
    /\ LET message == [NoMessage EXCEPT !.content = content]
       IN  delivery' = [delivery EXCEPT !.msgs[tag] =
              IF JSON_parseThrows(content)
              THEN Channel_settle([message EXCEPT !.failed = TRUE], "nack")
              ELSE [message EXCEPT !.pc = "handling"]]
    /\ UNCHANGED <<tasks, issued, now, userRepo, last, prev, calls, users, mail>>

\* The awaited callback has ended: ack, or nack(msg, false, false) in the
\* catch block.  On a closed channel ack throws inside the try, the nack of
\* the catch block throws too, and the rejection leaves the consumer.
CallbackEnds(tag, outcome) ==
    /\ delivery.msgs[tag].pc = "handling"
    /\ outcome \in EmailWorker_callbackOutcomes(delivery.msgs[tag].content)
    /\ LET message == [delivery.msgs[tag] EXCEPT !.failed = outcome = "throws"]
       IN  delivery' = [delivery EXCEPT !.msgs[tag] =
              IF delivery.channel # "open"
              THEN [message EXCEPT !.pc = "abandoned"]
              ELSE Channel_settle(message,
                                  IF outcome = "throws" THEN "nack" ELSE "ack")]
    /\ UNCHANGED <<tasks, issued, now, userRepo, last, prev, calls, users, mail>>

\* The connection closes ('close' event): the broker puts every message
\* that is neither acked nor nacked back on the queue.
ConnectionCloses ==
    /\ delivery.channel = "open"
    /\ delivery' =
          [channel |-> "closed",
           msgs    |-> [tag \in MessageTags |->
                          IF delivery.msgs[tag].pc = "handling"
                          THEN [delivery.msgs[tag] EXCEPT !.requeued = TRUE]
                          ELSE delivery.msgs[tag]]]
    /\ UNCHANGED <<tasks, issued, now, userRepo, last, prev, calls, users, mail>>

\* The broker forgets a settled delivery.
DeliveryDone(tag) ==
    /\ delivery.msgs[tag].pc = "settled"
    /\ delivery' = [delivery EXCEPT !.msgs[tag] = NoMessage]
    /\ UNCHANGED <<tasks, issued, now, userRepo, last, prev, calls, users, mail>>

MessageDelivered ==
    \E tag \in MessageTags, content \in MessageContents : DeliverMessage(tag, content)

CallbackSettles ==
    \E tag \in MessageTags, outcome \in {"returns", "throws"} :
        CallbackEnds(tag, outcome)

DeliveryForgotten == \E tag \in MessageTags : DeliveryDone(tag)

NextQueue ==
    \/ StartEmailWorker
    \/ MessageDelivered
    \/ CallbackSettles
    \/ ConnectionCloses
    \/ DeliveryForgotten

SpecQueue == Init /\ [][NextQueue]_vars

\* ================================================================= claims
\* The transition table of section 4.2 of the specification.
Edges ==
    {<<"todo", "in_progress">>, <<"todo", "review">>,
     <<"in_progress", "review">>, <<"in_progress", "todo">>,
     <<"review", "done">>, <<"review", "in_progress">>,
     <<"done", "todo">>, <<"done", "in_progress">>}

Errors == {"ValidationError", "NotFoundError", "ForbiddenError"}

\* The role the authentication collaborator gives the actor of a call.
ActorRole(call) ==
    IF call.op = "DeleteTask" THEN call.requesterRole
    ELSE IF call.requesterId \in StoredUsers THEN RoleOf[call.requesterId]
    ELSE Undef

Loaded(call) == call.loaded # << >>

IsCreator(call) == call.requesterId = call.loaded[1].createdBy

IsAssignee(call) == call.requesterId = call.loaded[1].assigneeId

\* C1: a call of UpdateTaskStatus or UpdateTask that gets as far as the
\* transition check succeeds if and only if (stored status, requested status)
\* is one of the eight edges, and otherwise ends with ValidationError; the
\* two checks give the same answer on every pair of statuses.
C1_TransitionTable ==
    /\ (/\ last.op = "UpdateTaskStatus"
        /\ Loaded(last)
        /\ last.newStatus \in TaskStatus
        /\ ~Falsy(last.requesterId)
        /\ last.outcome # "ForbiddenError")
       => /\ last.outcome \in {"ok", "ValidationError"}
          /\ last.outcome = "ok" <=> <<last.loaded[1].status, last.newStatus>> \in Edges
    /\ (/\ last.op = "UpdateTask"
        /\ Loaded(last)
        /\ "status" \in DOMAIN last.taskData
        /\ last.outcome # "ForbiddenError")
       => /\ last.outcome \in {"ok", "ValidationError"}
          /\ last.outcome = "ok"
                <=> <<last.loaded[1].status, last.taskData.status>> \in Edges
    /\ \A a \in TaskStatus, b \in TaskStatus :
          UpdateTaskStatusUseCase_validateStatusTransition(a, b)
             = UpdateTaskUseCase_validateStatusTransition(a, b)

\* UpdateTask by the creator asks for the status the task already has and is
\* refused with ValidationError.
C1_Witness ==
    /\ last.op = "UpdateTask"
    /\ Loaded(last)
    /\ "status" \in DOMAIN last.taskData
    /\ last.taskData.status = last.loaded[1].status
    /\ IsCreator(last)
    /\ last.outcome = "ValidationError"

\* C2: in a run of non-overlapping calls, a stored task whose status changes
\* in a step changes along an edge of the table, and a step of AssignTask or
\* of an UpdateTask whose patch has no status leaves every stored status as
\* it was.
C2_StatusAlongEdges ==
    [][\A id \in DOMAIN tasks \cap DOMAIN tasks' :
          /\ tasks[id].status # tasks'[id].status
                => <<tasks[id].status, tasks'[id].status>> \in Edges
          /\ (\/ last'.op = "AssignTask"
              \/ (last'.op = "UpdateTask" /\ "status" \notin DOMAIN last'.taskData))
                => tasks'[id].status = tasks[id].status]_vars

\* UpdateTaskStatus has moved a stored task from review to done.
C2_Witness ==
    /\ last.op = "UpdateTaskStatus"
    /\ last.outcome = "ok"
    /\ last.loaded[1].status = "review"
    /\ tasks[last.id].status = "done"

\* C3: an actor whose role is admin and who is neither the creator nor the
\* assignee of the task is never answered ForbiddenError by UpdateTask,
\* UpdateTaskStatus or DeleteTask.
C3_AdminNeverForbidden ==
    (/\ last.op \in {"UpdateTask", "UpdateTaskStatus", "DeleteTask"}
     /\ last.via = "usecase"
     /\ Loaded(last)
     /\ ActorRole(last) = "admin"
     /\ ~IsCreator(last)
     /\ ~IsAssignee(last))
    => last.outcome # "ForbiddenError"

C6_DeletePermission ==
    (/\ last.op = "DeleteTask"
     /\ Loaded(last)
     /\ last.requesterId \in StoredUsers)
    => /\ last.id \notin DOMAIN tasks
             <=> (last.requesterRole = "admin" \/ IsCreator(last))
       /\ last.id \in DOMAIN tasks => last.outcome \in {"ForbiddenError", "403"}

ArgumentsRefused(call) ==
    \/ /\ call.op = "UpdateTaskStatus"
       /\ \/ call.id = ""
          \/ call.newStatus \notin TaskStatus
          \/ call.requesterId = ""
    \/ /\ call.op = "AssignTask"
       /\ \/ call.id = ""
          \/ call.assigneeId = ""

LaterRuleViolated(call) ==
    LET p == call.taskData
    IN  \/ "status" \in DOMAIN p /\ <<call.loaded[1].status, p.status>> \notin Edges
        \/ "title" \in DOMAIN p /\ (p.title < TitleMin \/ p.title > TitleMax)
        \/ "description" \in DOMAIN p /\ p.description > DescriptionMax
        \/ "tags" \in DOMAIN p
              /\ (Len(p.tags) > TagsMax \/ \E i \in 1..Len(p.tags) : p.tags[i] > TagMax)
        \/ "dueDate" \in DOMAIN p /\ p.dueDate < now
        \/ "assigneeId" \in DOMAIN p /\ p.assigneeId = "u9"

C9_ErrorsWriteNothing ==
    [][/\ (last'.op # "none" /\ last'.outcome \in Errors) => tasks' = tasks
       /\ last'.writes <= 1
       /\ tasks' # tasks => last'.writes = 1]_vars

\* UpdateTask on a stored task has ended with NotFoundError for the assignee
\* of its patch, after the permission and the field checks passed.
C9_Witness ==
    /\ last.op = "UpdateTask"
    /\ Loaded(last)
    /\ last.outcome = "NotFoundError"
    /\ last.writes = 0

\* C10: AssignTask(id, x) has succeeded with one write and AssignTask(id, x)
\* is called again: the second call succeeds, writes nothing, sends no
\* notification and returns the task as the first call stored and returned
\* it, updatedAt included.
C10_AssignTwice ==
    (/\ prev.op = "AssignTask"
     /\ prev.outcome = "ok"
     /\ prev.writes = 1
     /\ last.op = "AssignTask"
     /\ last.id = prev.id
     /\ last.assigneeId = prev.assigneeId)
    => /\ last.outcome = "ok"
       /\ last.writes = 0
       /\ last.notified = 0
       /\ last.ret = findById(tasks, last.id)
       /\ last.ret = prev.ret
       /\ last.ret[1].assigneeId = last.assigneeId

\* The second of two such calls has returned, some time after the first one
\* wrote.
C10_Witness ==
    /\ prev.op = "AssignTask"
    /\ prev.outcome = "ok"
    /\ prev.writes = 1
    /\ last.op = "AssignTask"
    /\ last.id = prev.id
    /\ last.assigneeId = prev.assigneeId
    /\ last.outcome = "ok"
    /\ now > last.ret[1].updatedAt

\* C11: when AssignTask has stored the new assigneeId and its notification
\* step then fails (the user lookup or the dispatch raises), the step that
\* ends the call leaves the collection as it is, with the new assigneeId on
\* the stored task, and the call returns the updated task with no error.
C11_NotificationFailureSuppressed ==
    [][\A p \in Procs :
          (/\ calls[p].pc = "notifying"
           /\ calls'[p].pc = "returned"
           /\ calls'[p].notification = "failed")
          => /\ calls'[p].outcome = "ok"
             /\ calls'[p].ret = calls[p].ret
             /\ calls'[p].ret # << >>
             /\ calls'[p].ret[1].assigneeId = calls[p].assigneeId
             /\ tasks' = tasks
             /\ tasks'[calls[p].id].assigneeId = calls[p].assigneeId]_vars

\* An AssignTask whose notification step failed has returned the task with
\* the new assignee.
C11_Witness ==
    \E p \in Procs :
        /\ calls[p].op = "AssignTask"
        /\ calls[p].pc = "returned"
        /\ calls[p].notification = "failed"
        /\ calls[p].outcome = "ok"
        /\ calls[p].loaded[1].assigneeId # calls[p].assigneeId
        /\ tasks[calls[p].id].assigneeId = calls[p].assigneeId

\* C12: an AssignTask that has stored the new assignment and started its
\* notification step returns, whether or not the notification step ever
\* ends.
C12_ReturnsWithoutNotification ==
    \A p \in Procs : (calls[p].pc = "notifying") ~> (calls[p].pc = "returned")

\* C13: the repository write of an UpdateTaskStatus call is applied only if
\* the stored task is still the version that call loaded.
C13_WriteOnlyIfUnchanged ==
    [][\A p \in Procs :
          (/\ calls[p].op = "UpdateTaskStatus"
           /\ calls[p].pc = "loaded"
           /\ calls'[p].pc = "returned"
           /\ tasks' # tasks)
          => findById(tasks, calls[p].id) = calls[p].loaded]_vars

\* C14: no step changes the id or the createdBy of a stored task; in
\* particular not an UpdateTask whose patch has the key id or createdBy.
C14_IdAndCreatorKept ==
    [][\A id \in DOMAIN tasks \cap DOMAIN tasks' :
          /\ tasks'[id].id = tasks[id].id
          /\ tasks'[id].createdBy = tasks[id].createdBy]_vars

\* C15: every stored task has a title of 3 to 200 characters, a description
\* of at most 5000 characters and at most 10 tags of at most 50 characters
\* each, and an UpdateTask whose patch has a title shorter than 3 characters
\* (the empty title included) or more than 10 tags ends with ValidationError
\* when permission is given.
C15_FieldConstraints ==
    /\ \A id \in DOMAIN tasks :
          /\ tasks[id].title >= TitleMin
          /\ tasks[id].title <= TitleMax
          /\ tasks[id].description <= DescriptionMax
          /\ Len(tasks[id].tags) <= TagsMax
          /\ \A i \in 1..Len(tasks[id].tags) : tasks[id].tags[i] <= TagMax
    /\ (/\ last.op = "UpdateTask"
        /\ Loaded(last)
        /\ last.outcome # "ForbiddenError"
        /\ \/ "title" \in DOMAIN last.taskData /\ last.taskData.title < TitleMin
           \/ "tags" \in DOMAIN last.taskData /\ Len(last.taskData.tags) > TagsMax)
       => last.outcome = "ValidationError"

\* C16: CreateTask called with title, projectId and createdBy only returns
\* and stores a task with status todo, priority medium, no tags,
\* estimatedHours 1 and actualHours 0.
C16_CreateDefaults ==
    (/\ last.op = "CreateTask"
     /\ DOMAIN last.taskData = {"title", "projectId", "createdBy"}
     /\ last.outcome = "ok")
    => /\ last.ret[1].status = "todo"
       /\ last.ret[1].priority = "medium"
       /\ last.ret[1].tags = << >>
       /\ Get(last.ret[1], "estimatedHours", NoHours) = 1
       /\ Get(last.ret[1], "actualHours", NoHours) = 0
       /\ last.id \in DOMAIN tasks
       /\ tasks[last.id].status = "todo"
       /\ tasks[last.id].priority = "medium"
       /\ tasks[last.id].tags = << >>
       /\ tasks[last.id].estimatedHours = 1
       /\ tasks[last.id].actualHours = 0

\* C17: a successful UpdateTaskStatus leaves the set of stored tasks and
\* every other stored task as they were, and on its own task changes the
\* status (to the requested one) and updatedAt (to the time of the call) and
\* nothing else: no other field changes and no field, such as the comment,
\* is added to the stored or to the returned task.
C17_StatusFrame ==
    [][(/\ last.op = "none"
        /\ last'.op = "UpdateTaskStatus"
        /\ last'.outcome = "ok")
       => /\ DOMAIN tasks' = DOMAIN tasks
          /\ \A id \in DOMAIN tasks \ {last'.id} : tasks'[id] = tasks[id]
          /\ DOMAIN tasks'[last'.id] = DOMAIN tasks[last'.id]
          /\ \A k \in DOMAIN tasks[last'.id] \ {"status", "updatedAt"} :
                tasks'[last'.id][k] = tasks[last'.id][k]
          /\ tasks'[last'.id].status = last'.newStatus
          /\ tasks'[last'.id].updatedAt = now
          /\ "comment" \notin DOMAIN last'.ret[1]
          /\ last'.ret = findById(tasks', last'.id)]_vars

\* UpdateTaskStatus with a comment has changed the status of one of two
\* stored tasks, some time after the task was created.
C17_Witness ==
    /\ last.op = "UpdateTaskStatus"
    /\ last.outcome = "ok"
    /\ last.comment = "note"
    /\ Cardinality(DOMAIN tasks) = 2
    /\ tasks[last.id].updatedAt > tasks[last.id].createdAt
    /\ tasks[last.id].status # last.loaded[1].status

\* C18: the task endpoints answer a NotFoundError with 404, a ForbiddenError
\* with 403 and a ValidationError with 400, and a ConflictError carries 409.
C18_StatusCodes ==
    /\ last.outcome = "NotFoundError"
          => TaskController_status(ErrorThrown(last.outcome)) = 404
    /\ last.outcome = "ForbiddenError"
          => TaskController_status(ErrorThrown(last.outcome)) = 403
    /\ last.outcome = "ValidationError"
          => TaskController_status(ErrorThrown(last.outcome)) = 400
    /\ AppError_statusCode("ConflictError") = 409

\* C19: the repository's update called with an id that matches no stored
\* record returns null without raising and leaves the store as it is; with an
\* id that matches it returns the updated task.
C19_UpdateAbsent ==
    last.op = "update"
    => IF last.loaded = << >>
       THEN /\ last.outcome = "ok"
            /\ last.ret = << >>
            /\ last.id \notin DOMAIN tasks
       ELSE /\ last.outcome = "ok"
            /\ last.ret = findById(tasks, last.id)

\* No assignee, whether written as undefined or as null.
AssigneeOf(task) == IF task.assigneeId \in {Undef, Null} THEN "none" ELSE task.assigneeId

\* C20: findById called with the id that create has just returned yields a
\* task with the same id, title, description, status, priority, dueDate,
\* assignee (no assignee included), projectId, createdBy, tags,
\* estimatedHours and actualHours as the created task, and with createdAt
\* and updatedAt not earlier than the created task's.
C20_CreateFindRoundTrip ==
    (/\ prev.op = "create"
     /\ last.op = "findById"
     /\ last.id = prev.ret[1].id)
    => /\ last.ret # << >>
       /\ \A k \in {"id", "title", "description", "status", "priority", "dueDate",
                     "projectId", "createdBy", "tags"} :
             last.ret[1][k] = prev.ret[1][k]
       /\ AssigneeOf(last.ret[1]) = AssigneeOf(prev.ret[1])
       /\ Get(last.ret[1], "estimatedHours", NoHours)
             = Get(prev.ret[1], "estimatedHours", NoHours)
       /\ Get(last.ret[1], "actualHours", NoHours)
             = Get(prev.ret[1], "actualHours", NoHours)
       /\ last.ret[1].createdAt >= prev.ret[1].createdAt
       /\ last.ret[1].updatedAt >= prev.ret[1].updatedAt

\* A task created with a due date and no assignee has been read back, some
\* time after it was created.
C20_Witness ==
    /\ prev.op = "create"
    /\ last.op = "findById"
    /\ last.id = prev.ret[1].id
    /\ last.ret # << >>
    /\ "assigneeId" \notin DOMAIN prev.taskData
    /\ last.ret[1].dueDate # NoDate
    /\ now > last.ret[1].createdAt

\* C21: CreateTask with a dueDate that is not strictly later than the time
\* of the call ends with ValidationError and stores nothing, and UpdateTask
\* by a permitted actor with such a dueDate in its patch ends with
\* ValidationError.
C21_DueDateStrictlyFuture ==
    /\ (/\ last.op = "CreateTask"
        /\ Get(last.taskData, "dueDate", NoDate) # NoDate
        /\ last.taskData.dueDate <= now)
       => /\ last.outcome = "ValidationError"
          /\ last.id = ""
    /\ (/\ last.op = "UpdateTask"
        /\ Loaded(last)
        /\ last.outcome # "ForbiddenError"
        /\ "dueDate" \in DOMAIN last.taskData
        /\ last.taskData.dueDate <= now)
       => last.outcome = "ValidationError"

\* C22: through PATCH /api/tasks/:id/status, a caller who is the assignee
\* of the stored task, or whose role is admin or manager, succeeds exactly
\* when the requested transition is an edge of the table.
C22_StatusRouteAccess ==
    (/\ last.op = "UpdateTaskStatus"
     /\ last.via = "route"
     /\ Loaded(last)
     /\ (IsAssignee(last) \/ ActorRole(last) \in {"admin", "manager"}))
    => (last.outcome = "ok"
          <=> <<last.loaded[1].status, last.newStatus>> \in Edges)

\* C24: a step of UpdateTask or UpdateTaskStatus makes a stored status done
\* only from review; a call by a permitted actor that asks for done and gets
\* as far as the transition check while the stored status is todo,
\* in_progress or done ends with ValidationError and leaves the task as it
\* was. (So from todo no single successful change gives done.)
C24_DoneOnlyFromReview ==
    [][/\ \A id \in DOMAIN tasks \cap DOMAIN tasks' :
            (tasks'[id].status = "done" /\ tasks[id].status # "done")
            => /\ tasks[id].status = "review"
               /\ last'.op \in {"UpdateTask", "UpdateTaskStatus"}
               /\ last'.id = id
               /\ last'.outcome = "ok"
       /\ (/\ last.op = "none"
           /\ last'.op \in {"UpdateTask", "UpdateTaskStatus"}
           /\ last'.via = "usecase"
           /\ Loaded(last')
           /\ last'.loaded[1].status \in {"todo", "in_progress", "done"}
           /\ (IF last'.op = "UpdateTask"
               THEN Get(last'.taskData, "status", Undef)
               ELSE last'.newStatus) = "done"
           /\ last'.outcome \notin {"ForbiddenError", "NotFoundError"}
           /\ (last'.op = "UpdateTaskStatus" => ~Falsy(last'.requesterId)))
          => /\ last'.outcome = "ValidationError"
             /\ tasks' = tasks]_vars

\* UpdateTaskStatus by the creator asking for done on a task in todo was
\* refused with ValidationError, and the task is still in todo.
C24_Witness ==
    /\ last.op = "UpdateTaskStatus"
    /\ Loaded(last)
    /\ IsCreator(last)
    /\ last.loaded[1].status = "todo"
    /\ last.newStatus = "done"
    /\ last.outcome = "ValidationError"
    /\ tasks[last.id].status = "todo"

\* C25: with calls of UpdateTaskStatus overlapping, every step that changes
\* a stored status changes it along an edge of the table, and every write of
\* a status stores a status other than the one stored before.
C25_EdgesUnderOverlap ==
    [][/\ \A id \in DOMAIN tasks \cap DOMAIN tasks' :
            tasks[id].status # tasks'[id].status
            => <<tasks[id].status, tasks'[id].status>> \in Edges
       /\ \A p \in Procs :
            (/\ calls[p].op = "UpdateTaskStatus"
             /\ calls[p].pc = "loaded"
             /\ calls'[p].pc = "returned"
             /\ calls'[p].outcome = "ok")
            => tasks'[calls[p].id].status # tasks[calls[p].id].status]_vars

\* What section 7 and the use case call valid user data: every required
\* field present, an address for an email, a password that is not too short
\* and a role of the enumeration.
ValidUserData(body) ==
    /\ {"email", "password", "firstName", "lastName", "role"} \subseteq DOMAIN body
    /\ body.email.at
    /\ body.password.length >= 6
    /\ body.firstName > 0 /\ body.lastName > 0
    /\ body.role \in UserRole

EmailStored(store, email) == \E id \in DOMAIN store : store[id].email = email

StoredOneMore(before, after) ==
    /\ DOMAIN before \subseteq DOMAIN after
    /\ Cardinality(DOMAIN after \ DOMAIN before) = 1
    /\ \A id \in DOMAIN before : after[id] = before[id]

\* C23: POST /api/users with all required fields valid and an email not yet
\* stored answers 201 with success=true, stores exactly one new user and
\* returns a user whose email equals the submitted one; with invalid data
\* it answers 400 with success=false and stores no user.
C23_CreateUserResponses ==
    last.op = "CreateUser" =>
        /\ (ValidUserData(last.taskData)
                /\ ~EmailStored(last.before, last.taskData.email)) =>
               /\ last.httpStatus = 201
               /\ last.success
               /\ StoredOneMore(last.before, users)
               /\ last.ret # << >>
               /\ last.ret[1].email = last.taskData.email
        /\ ~ValidUserData(last.taskData) =>
               /\ last.httpStatus = 400
               /\ ~last.success
               /\ users = last.before

\* C26: no two stored users have the same email; a CreateUser whose email is
\* already stored fails with ConflictError and stores nothing.
C26_EmailsUnique ==
    /\ \A i, j \in DOMAIN users : users[i].email = users[j].email => i = j
    /\ (last.op = "CreateUser" /\ userCreateSchema(last.taskData).err = "ok"
            /\ EmailStored(last.before,
                           userCreateSchema(last.taskData).data.email)) =>
           (last.outcome = "ConflictError" /\ users = last.before)

\* C27: a status write of UpdateTaskStatus for requester R is applied only
\* to a task whose stored createdBy or assigneeId is R at the moment of the
\* write, also when the task was reassigned after R's call loaded it.
C27_WriterStillPermitted ==
    [][\A p \in Procs :
          (/\ calls[p].op = "UpdateTaskStatus"
           /\ calls[p].pc = "loaded"
           /\ calls'[p].pc = "returned"
           /\ calls'[p].outcome = "ok")
          => /\ calls[p].id \in DOMAIN tasks
             /\ \/ tasks[calls[p].id].createdBy = calls[p].requesterId
                \/ tasks[calls[p].id].assigneeId = calls[p].requesterId]_vars

\* The ids handed out so far.
IssuedIds == {IdPool[i] : i \in 1..issued}

Writers == {"UpdateTask", "UpdateTaskStatus", "AssignTask"}

\* C28: a task that was removed is never stored again; a writing call that
\* loaded it and reaches its write after the delete ends with an error; a
\* DeleteTask returns true only in the step that removes the task, so at
\* most once for an id, and never to two callers at a time.
C28_DeletedStaysDeleted ==
    [][/\ \A id \in IssuedIds : id \notin DOMAIN tasks => id \notin DOMAIN tasks'
       /\ \A p \in Procs :
            (/\ calls[p].op \in Writers
             /\ calls[p].loaded # << >>
             /\ calls[p].id \notin DOMAIN tasks
             /\ calls'[p].pc = "returned"
             /\ calls[p].pc # "returned"
             /\ RefusedBeforeUpdate(calls[p]) # "same")
            => calls'[p].outcome \notin {"ok", ""}
       /\ \A p \in Procs :
            (/\ calls[p].op = "DeleteTask"
             /\ calls[p].pc = "loaded"
             /\ calls'[p].deleted)
            => (calls[p].id \in DOMAIN tasks /\ calls[p].id \notin DOMAIN tasks')
       /\ \A p, q \in Procs :
            (/\ p # q
             /\ calls'[p].op = "DeleteTask" /\ calls'[q].op = "DeleteTask"
             /\ calls'[p].id = calls'[q].id)
            => ~(calls'[p].deleted /\ calls'[q].deleted)]_vars

\* A DeleteTask has returned true and a call that loaded the task before
\* has ended with an error, the task being gone.
C28_Witness ==
    /\ tasks = << >>
    /\ \E p, q \in Procs :
          /\ calls[p].op = "DeleteTask" /\ calls[p].pc = "returned"
          /\ calls[p].deleted
          /\ calls[q].op \in Writers /\ calls[q].pc = "returned"
          /\ calls[q].loaded # << >>
          /\ calls[q].outcome = "Error"

\* A sendEmail call is between its first attempt and its return.
SendEmailBusy == mail.pc \in {"sending", "waiting"}

\* C29: with retryAttempts >= 1 a sendEmail call makes at most retryAttempts
\* attempts and none after a successful one, returns true exactly when an
\* attempt succeeded, raises nothing, and always returns.
C29_BoundedRetry ==
    /\ [](mail.retryAttempts >= 1 =>
            /\ mail.sent <= mail.retryAttempts
            /\ mail.delivered <= 1
            /\ (mail.delivered = 1 => (mail.pc = "returned" /\ mail.ret))
            /\ (mail.pc = "returned" =>
                   /\ mail.ret = (mail.delivered >= 1)
                   /\ ~mail.raised))
    /\ ((mail.retryAttempts >= 1 /\ SendEmailBusy) ~> (mail.pc = "returned"))

\* The last permitted attempt succeeded after the earlier ones failed.
C29_Witness ==
    /\ mail.pc = "returned"
    /\ mail.ret
    /\ mail.retryAttempts >= 2
    /\ mail.sent = mail.retryAttempts

\* C30: a message whose handling has ended is settled exactly once, acked if
\* and only if parsing and the callback ended without error and nacked
\* otherwise, never both; and no message goes back on the queue.
C30_SettledExactlyOnce ==
    \A tag \in MessageTags :
        LET message == delivery.msgs[tag]
        IN  /\ ~message.requeued
            /\ ~(message.acks >= 1 /\ message.nacks >= 1)
            /\ message.pc \in {"settled", "abandoned"} =>
                   /\ message.acks + message.nacks = 1
                   /\ (message.acks = 1) = ~message.failed

====
